---- MODULE Spec2Model ----
(***************************************************************************)
(* Model of the ITMO master's-programme advisory bot:                      *)
(*   final_parser.py  extract_curriculum_data, categorize_subjects,        *)
(*                    generate_recommendations                             *)
(*   bot.py           ITMOChatBot (relevance gate, FAQ matcher, handlers)  *)
(*                                                                         *)
(* Text encoding.  TLA+ strings are ASCII, the program's texts are mixed   *)
(* Latin/Cyrillic.  Every character of the program's texts is written as   *)
(* one character of the model, by a fixed one-to-one table:                *)
(*   Latin lowercase letters, digits, blank, punctuation: themselves       *)
(*   Cyrillic lowercase letters:                                           *)
(*     a A  b B  v V  g G  d D  e E  zh X  z Z  i I  j J  k K  l L  m M     *)
(*     n N  o O  p P  r R  s S  t T  u U  f F  h H  c C  ch Q  sh W  y Y    *)
(*     soft sign '   e-oborotnoe &   yu $   ya @   shch %                   *)
(*   a capital letter: "^" followed by the code of its lowercase letter,   *)
(*     so that str.lower() is the removal of the "^" marks.                *)
(* E.g. 'semestr' (Cyrillic) is "SEMESTR", 'ML' is "^m^l".                 *)
(***************************************************************************)
EXTENDS Integers, Sequences, FiniteSets, TLC

\* ------------------------------------------------------------------------
\* Bounds of the model
\* ------------------------------------------------------------------------
MaxLines == 3        \* lines of a curriculum text
MaxLinesDet == 2     \* lines of a text parsed by two runs side by side

\* ------------------------------------------------------------------------
\* Python string primitives
\* ------------------------------------------------------------------------
Min(S) == CHOOSE x \in S : \A y \in S : x <= y
Max(S) == CHOOSE x \in S : \A y \in S : x >= y

Char(s, i) == SubSeq(s, i, i)

\* slice s[p:] (1-based p)
From(s, p) == IF p > Len(s) THEN "" ELSE SubSeq(s, p, Len(s))

\* s[p:].startswith(k); a letter behind a capital mark is a capital letter
\* and does not begin a match
StartsAt(s, p, k) ==
    /\ p + Len(k) - 1 <= Len(s)
    /\ SubSeq(s, p, p + Len(k) - 1) = k
    /\ (p = 1 \/ SubSeq(s, p - 1, p - 1) # "^")

\* k in s
Contains(s, k) == \E i \in 1..(Len(s) - Len(k) + 1) : StartsAt(s, i, k)

IsDigit(c) == c \in {"0", "1", "2", "3", "4", "5", "6", "7", "8", "9"}
IsSpace(c) == c \in {" ", "\t", "\n"}

AllDigits(s, a, b) == \A i \in a..b : IsDigit(Char(s, i))
AllSpace(s, a, b) == \A i \in a..b : IsSpace(Char(s, i))

\* str.lower()
RECURSIVE Lower(_)
Lower(s) ==
    IF s = "" THEN ""
    ELSE IF Char(s, 1) = "^" THEN Lower(From(s, 2))
    ELSE Char(s, 1) \o Lower(From(s, 2))

\* str.strip()
Strip(s) ==
    LET ns == {i \in 1..Len(s) : ~IsSpace(Char(s, i))}
    IN  IF ns = {} THEN "" ELSE SubSeq(s, Min(ns), Max(ns))

\* text.split('\n')
RECURSIVE SplitLines(_)
SplitLines(t) ==
    LET P == {i \in 1..Len(t) : Char(t, i) = "\n"}
    IN  IF P = {} THEN <<t>>
        ELSE <<SubSeq(t, 1, Min(P) - 1)>> \o SplitLines(From(t, Min(P) + 1))

DigitVal(c) == CHOOSE n \in 0..9 : Char("0123456789", n + 1) = c

\* int(d) for a string of decimal digits
RECURSIVE ToInt(_)
ToInt(d) ==
    IF d = "" THEN 0
    ELSE 10 * ToInt(SubSeq(d, 1, Len(d) - 1)) + DigitVal(Char(d, Len(d)))

\* ------------------------------------------------------------------------
\* Regular expressions of extract_curriculum_data
\* ------------------------------------------------------------------------

\* r'^O^P\s+(.+?)(?:^SEMESTRY|$)' searched in the whole text:
\* leftmost start, longest \s+, shortest group; '.' excludes newline and
\* '$' is the end of the text or the place before a final newline.
ProgramEnd(t, p) ==
    \/ StartsAt(t, p, "^SEMESTRY")
    \/ p = Len(t) + 1
    \/ p = Len(t) /\ Char(t, p) = "\n"

\* number of whitespace characters in a row from position p on
WsRun(t, p) == Max({w \in 0..(Len(t) + 1 - p) : AllSpace(t, p, p + w - 1)} \cup {0})

\* the pairs (length of \s+, length of the group) of a match starting at s
ProgramCand(t, s) ==
    {c \in (1..WsRun(t, s + 4)) \X (1..Len(t)) :
        /\ StartsAt(t, s, "^O^P")
        /\ s + 3 + c[1] + c[2] <= Len(t)
        /\ AllSpace(t, s + 4, s + 3 + c[1])
        /\ \A i \in (s + 4 + c[1])..(s + 3 + c[1] + c[2]) : Char(t, i) # "\n"
        /\ ProgramEnd(t, s + 4 + c[1] + c[2])}

\* group(1) of the match, "" when there is none
program_match(t) ==
    LET starts == {s \in 1..Len(t) : StartsAt(t, s, "^O^P") /\ ProgramCand(t, s) # {}}
    IN  IF starts = {} THEN ""
        ELSE LET s0 == Min(starts)
                 S  == ProgramCand(t, s0)
                 w0 == Max({c[1] : c \in S})
                 g0 == Min({c[2] : c \in {x \in S : x[1] = w0}})
             IN  SubSeq(t, s0 + 4 + w0, s0 + 3 + w0 + g0)

\* r'(\d+)\s*SEMESTR' searched in a line: the pairs (start, end) of a digit
\* run that is followed by optional whitespace and the literal
SemesterCand(line) ==
    {c \in (1..Len(line)) \X (1..Len(line)) :
        /\ c[1] <= c[2]
        /\ AllDigits(line, c[1], c[2])
        /\ \E w \in 0..(Len(line) - c[2]) :
              /\ AllSpace(line, c[2] + 1, c[2] + w)
              /\ StartsAt(line, c[2] + w + 1, "SEMESTR")}

\* group(1) of the leftmost match with the longest \d+; "" when no match
semester_match(line) ==
    IF SemesterCand(line) = {} THEN ""
    ELSE LET S  == SemesterCand(line)
             s0 == Min({c[1] : c \in S})
             e0 == Max({c[2] : c \in {x \in S : x[1] = s0}})
         IN  SubSeq(line, s0, e0)

\* rest of the course pattern, \s+(\d+)\s*$ tried at position p: the
\* positions <<first, last>> of group 3, or << >> when it does not match.
\* \s+, \d+ and \s* are greedy and no shorter choice can match, because
\* a blank is no digit and a digit is no blank.
TailMatch(line, p) ==
    LET ns == {i \in p..Len(line) : ~IsSpace(Char(line, i))}
    IN  IF ns = {} \/ p > Len(line) THEN << >>
        ELSE LET d1 == Min(ns)
                 ds == {i \in d1..Len(line) : AllDigits(line, d1, i)}
             IN  IF d1 = p \/ ds = {} THEN << >>
                 ELSE IF AllSpace(line, Max(ds) + 1, Len(line))
                      THEN <<d1, Max(ds)>> ELSE << >>

\* r'^(\d+)(.+?)\s+(\d+)\s*$' matched at the start of a line: the pairs
\* (length of group 1, length of group 2) for which the rest matches
CourseCand(line) ==
    {c \in (1..Len(line)) \X (1..Len(line)) :
        /\ AllDigits(line, 1, c[1])
        /\ c[1] + c[2] < Len(line)
        /\ \A i \in (c[1] + 1)..(c[1] + c[2]) : Char(line, i) # "\n"
        /\ TailMatch(line, c[1] + c[2] + 1) # << >>}

\* the groups of the match the regex engine returns: longest group 1,
\* then shortest group 2 (lazy), then the digits of the tail.
\* matched = FALSE when the pattern does not match.
course_match(line) ==
    IF CourseCand(line) = {} THEN [matched |-> FALSE, g1 |-> "", g2 |-> "", g3 |-> ""]
    ELSE LET S  == CourseCand(line)
             a  == Max({c[1] : c \in S})
             b  == Min({c[2] : c \in {x \in S : x[1] = a}})
             t  == TailMatch(line, a + b + 1)
         IN  [matched |-> TRUE,
              g1 |-> SubSeq(line, 1, a),
              g2 |-> SubSeq(line, a + 1, a + b),
              g3 |-> SubSeq(line, t[1], t[2])]

\* ------------------------------------------------------------------------
\* State
\* ------------------------------------------------------------------------
VARIABLES
    text,   \* the input of extract_curriculum_data
    run,    \* run[r]: the locals of one call of extract_curriculum_data:
            \*   pc, lines, idx (position of the for loop), current_semester,
            \*   current_section, curriculum
    background_text,    \* arguments of generate_recommendations
    curriculum,
    gr,     \* the locals of the call of generate_recommendations: pc,
            \*   profile_scores, best_profile, best_score, dominant_profile,
            \*   preferences, profile_description, categorized, i,
            \*   recommendations, result
    question,       \* question[c]: the text of message c
    programs_data,  \* ITMOChatBot.programs_data, in the order of the dict
    fq,     \* fq[c]: the handling of message c: mode (through
            \*   message_handler or find_best_answer called directly), pc,
            \*   p and i (positions of the two for loops), best_match,
            \*   best_score, scored (entries scored so far), returned,
            \*   result, response
    bot     \* the ITMOChatBot object and its handlers in flight:
            \*   user_profiles (self.user_profiles, user id -> UserProfile) and
            \*   tasks (one entry per update: kind, user, args, pc, and what
            \*   the handler has read and replied)

vars == <<text, run, background_text, curriculum, gr, question, programs_data, fq, bot>>
exVars == <<text, run>>
recVars == <<background_text, curriculum, gr>>
faqVars == <<question, programs_data, fq>>
nonExVars == <<recVars, faqVars, bot>>
nonRecVars == <<exVars, faqVars, bot>>
nonFaqVars == <<exVars, recVars, bot>>

\* ------------------------------------------------------------------------
\* extract_curriculum_data
\* ------------------------------------------------------------------------
None == -1          \* current_semester = None (a matched number is >= 0)

\* lines a curriculum text is made of
LinePool ==
    { "  ",
      "1 SEMESTR",
      "2^MAWINNOE OBUQENIE 1306",
      "^OB@ZATEL'NYE DISCIPLINY",
      "^PUL VYBORNYH DISCIPLIN",
      "1^VORKWOP\t3",
      "12 5",
      "2^KURS 3 SEMESTR 4",
      "1^BLOK ^VYBORNYH 6",
      "0^m^l 0108",
      "^O^P ^I^I ^SEMESTRY 1 2",
      "1^OB@ZATEL'NYE DISCIPLINY I PUL VYBORNYH 5",
      "^OB@ZATEL'NYE DISCIPLINY. 1 SEMESTR" }

RECURSIVE JoinLines(_)
JoinLines(ls) ==
    IF ls = << >> THEN ""
    ELSE IF Len(ls) = 1 THEN ls[1]
    ELSE ls[1] \o "\n" \o JoinLines(Tail(ls))

Texts == {JoinLines(ls) : ls \in UNION {[1..n -> LinePool] : n \in 0..MaxLines}}

\* lines 19-25
EmptyCurriculum ==
    [program_name |-> "", semesters |-> << >>,
     elective_courses |-> << >>, mandatory_courses |-> << >>, all_courses |-> << >>]

\* curriculum["semesters"] is a dict in insertion order: a sequence of
\* entries [num, mandatory, elective]
HasSemester(sems, n) == \E k \in 1..Len(sems) : sems[k].num = n

\* InitSemester that assigns an empty bucket without testing for an
\* existing one
InitSemester_overwrite(sems, n) ==
    IF HasSemester(sems, n)
    THEN [k \in 1..Len(sems) |->
            IF sems[k].num = n THEN [num |-> n, mandatory |-> << >>, elective |-> << >>]
            ELSE sems[k]]
    ELSE Append(sems, [num |-> n, mandatory |-> << >>, elective |-> << >>])

\* lines 46-50 and 97-101
InitSemester(sems, n) ==
    IF HasSemester(sems, n) THEN sems
    ELSE Append(sems, [num |-> n, mandatory |-> << >>, elective |-> << >>])

\* curriculum["semesters"][n][type].append(course)
AddToSemester(sems, n, type, course) ==
    [k \in 1..Len(sems) |->
        IF sems[k].num = n
        THEN IF type = "mandatory"
             THEN [sems[k] EXCEPT !.mandatory = Append(@, course)]
             ELSE [sems[k] EXCEPT !.elective = Append(@, course)]
        ELSE sems[k]]

\* SplitCredits with the length test off by one
SplitCredits_gt4(combined_number) ==
    IF Len(combined_number) > 4
    THEN [credits |-> ToInt(Char(combined_number, 1)),
          hours   |-> ToInt(From(combined_number, 2))]
    ELSE [credits |-> ToInt(combined_number), hours |-> 0]

\* lines 71-76
SplitCredits(combined_number) ==
    IF Len(combined_number) >= 4
    THEN [credits |-> ToInt(Char(combined_number, 1)),
          hours   |-> ToInt(From(combined_number, 2))]
    ELSE [credits |-> ToInt(combined_number), hours |-> 0]

\* SectionType that infers from the name before it looks at the section
SectionType_nameFirst(current_section, course_name) ==
    IF \E keyword \in {"OB@ZATEL'N", "VORKWOP"} : Contains(Lower(course_name), keyword)
    THEN "mandatory"
    ELSE IF current_section = "none" THEN "elective" ELSE current_section

\* lines 79-86
SectionType(current_section, course_name) ==
    IF current_section = "none"
    THEN IF \E keyword \in {"OB@ZATEL'N", "VORKWOP"} : Contains(Lower(course_name), keyword)
         THEN "mandatory" ELSE "elective"
    ELSE current_section

\* lines 63-94: the course_info of a line the course pattern matches
CourseInfo(line, current_section) ==
    LET m  == course_match(line)
        course_name == Strip(m.g2)
        ch == SplitCredits(m.g3)
    IN  [name |-> course_name, credits |-> ch.credits, hours |-> ch.hours,
         semester |-> ToInt(m.g1), type |-> SectionType(current_section, course_name)]

\* RecordCourse that files a mandatory course under the semester's
\* elective bucket
RecordCourse_wrongBucket(cur, course_info) ==
    LET sems == InitSemester(cur.semesters, course_info.semester)
    IN  IF course_info.type = "mandatory"
        THEN [cur EXCEPT
                !.semesters = AddToSemester(sems, course_info.semester, "elective", course_info),
                !.mandatory_courses = Append(@, course_info),
                !.all_courses = Append(@, course_info)]
        ELSE [cur EXCEPT
                !.semesters = AddToSemester(sems, course_info.semester, "elective", course_info),
                !.elective_courses = Append(@, course_info),
                !.all_courses = Append(@, course_info)]

\* lines 96-111
RecordCourse(cur, course_info) ==
    LET sems == InitSemester(cur.semesters, course_info.semester)
    IN  IF course_info.type = "mandatory"
        THEN [cur EXCEPT
                !.semesters = AddToSemester(sems, course_info.semester, "mandatory", course_info),
                !.mandatory_courses = Append(@, course_info),
                !.all_courses = Append(@, course_info)]
        ELSE [cur EXCEPT
                !.semesters = AddToSemester(sems, course_info.semester, "elective", course_info),
                !.elective_courses = Append(@, course_info),
                !.all_courses = Append(@, course_info)]

\* LineKind with the elective test before the mandatory test
LineKind_electiveFirst(raw) ==
    LET line == Strip(raw)
    IN  IF line = "" THEN "blank"
        ELSE IF semester_match(line) # "" THEN "semester"
        ELSE IF Contains(line, "^PUL VYBORNYH DISCIPLIN") \/ Contains(Lower(line), "VYBORNYH")
             THEN "elective"
        ELSE IF Contains(line, "^OB@ZATEL'NYE DISCIPLINY") THEN "mandatory"
        ELSE IF course_match(line).matched THEN "course"
        ELSE "noise"

\* which branch of the loop body (lines 38-64) a line takes
LineKind(raw) ==
    LET line == Strip(raw)
    IN  IF line = "" THEN "blank"
        ELSE IF semester_match(line) # "" THEN "semester"
        ELSE IF Contains(line, "^OB@ZATEL'NYE DISCIPLINY") THEN "mandatory"
        ELSE IF Contains(line, "^PUL VYBORNYH DISCIPLIN") \/ Contains(Lower(line), "VYBORNYH")
             THEN "elective"
        ELSE IF course_match(line).matched THEN "course"
        ELSE "noise"

\* LineKind and CourseInfo tabulated once for the lines of LinePool (the
\* values are those of the operators; a line outside the pool is computed)
KnownLines == LinePool \cup {""}
LineKindTable == [raw \in KnownLines |-> LineKind(raw)]
CourseInfoTable ==
    [raw \in {l \in KnownLines : LineKindTable[l] = "course"} |->
        [sec \in {"none", "mandatory", "elective"} |-> CourseInfo(Strip(raw), sec)]]

KindOf(raw) == IF raw \in KnownLines THEN LineKindTable[raw] ELSE LineKind(raw)
CourseOf(raw, sec) ==
    IF raw \in DOMAIN CourseInfoTable THEN CourseInfoTable[raw][sec]
    ELSE CourseInfo(Strip(raw), sec)

Runs == DOMAIN run

AtLine(r) == run[r].pc = "scan" /\ run[r].idx <= Len(run[r].lines)
CurLine(r) == run[r].lines[run[r].idx]

\* Begin with the curriculum dict kept between calls (a mutable default
\* object): a call starts from what an earlier call has collected
Begin_sharedDict(r) ==
    /\ run[r].pc = "start"
    /\ run' = [run EXCEPT ![r] =
                 [pc |-> "scan", lines |-> SplitLines(text), idx |-> 1,
                  current_semester |-> None, current_section |-> "none",
                  curriculum |->
                     IF \E q \in Runs : q # r /\ run[q].pc # "start"
                     THEN run[CHOOSE q \in Runs : q # r /\ run[q].pc # "start"].curriculum
                     ELSE [EmptyCurriculum EXCEPT
                              !.program_name = Strip(program_match(text))]]]
    /\ UNCHANGED <<text, nonExVars>>

\* lines 19-35
Begin(r) ==
    /\ run[r].pc = "start"
    /\ run' = [run EXCEPT ![r] =
                 [pc |-> "scan", lines |-> SplitLines(text), idx |-> 1,
                  current_semester |-> None, current_section |-> "none",
                  curriculum |-> [EmptyCurriculum EXCEPT
                                     !.program_name = Strip(program_match(text))]]]
    /\ UNCHANGED <<text, nonExVars>>

\* lines 38-40
BlankLine(r) ==
    /\ AtLine(r)
    /\ KindOf(CurLine(r)) = "blank"
    /\ run' = [run EXCEPT ![r].idx = @ + 1]
    /\ UNCHANGED <<text, nonExVars>>

\* lines 43-51 with the section forgotten at every semester header
SemesterHeader_resetSection(r) ==
    /\ AtLine(r)
    /\ KindOf(CurLine(r)) = "semester"
    /\ LET n == ToInt(semester_match(Strip(CurLine(r))))
       IN  run' = [run EXCEPT ![r].idx = @ + 1,
                              ![r].current_semester = n,
                              ![r].current_section = "none",
                              ![r].curriculum.semesters = InitSemester(@, n)]
    /\ UNCHANGED <<text, nonExVars>>

\* lines 43-51
SemesterHeader(r) ==
    /\ AtLine(r)
    /\ KindOf(CurLine(r)) = "semester"
    /\ LET n == ToInt(semester_match(Strip(CurLine(r))))
       IN  run' = [run EXCEPT ![r].idx = @ + 1,
                              ![r].current_semester = n,
                              ![r].curriculum.semesters = InitSemester(@, n)]
    /\ UNCHANGED <<text, nonExVars>>

\* lines 54-56
MandatoryHeader(r) ==
    /\ AtLine(r)
    /\ KindOf(CurLine(r)) = "mandatory"
    /\ run' = [run EXCEPT ![r].idx = @ + 1, ![r].current_section = "mandatory"]
    /\ UNCHANGED <<text, nonExVars>>

\* lines 57-59
ElectiveHeader(r) ==
    /\ AtLine(r)
    /\ KindOf(CurLine(r)) = "elective"
    /\ run' = [run EXCEPT ![r].idx = @ + 1, ![r].current_section = "elective"]
    /\ UNCHANGED <<text, nonExVars>>

\* CourseLine that files the course under the tracked semester when one
\* is set
CourseLine_trackedSemester(r) ==
    /\ AtLine(r)
    /\ KindOf(CurLine(r)) = "course"
    /\ LET info == CourseOf(CurLine(r), run[r].current_section)
           n == IF run[r].current_semester = None THEN info.semester
                ELSE run[r].current_semester
       IN  run' = [run EXCEPT
                     ![r].idx = @ + 1,
                     ![r].curriculum = RecordCourse(@, [info EXCEPT !.semester = n])]
    /\ UNCHANGED <<text, nonExVars>>

\* lines 63-111
CourseLine(r) ==
    /\ AtLine(r)
    /\ KindOf(CurLine(r)) = "course"
    /\ run' = [run EXCEPT
                 ![r].idx = @ + 1,
                 ![r].curriculum =
                     RecordCourse(@, CourseOf(CurLine(r), run[r].current_section))]
    /\ UNCHANGED <<text, nonExVars>>

\* NoiseLine that forgets the current section
NoiseLine_resetSection(r) ==
    /\ AtLine(r)
    /\ KindOf(CurLine(r)) = "noise"
    /\ run' = [run EXCEPT ![r].idx = @ + 1, ![r].current_section = "none"]
    /\ UNCHANGED <<text, nonExVars>>

\* line 64, no match: the line is dropped
NoiseLine(r) ==
    /\ AtLine(r)
    /\ KindOf(CurLine(r)) = "noise"
    /\ run' = [run EXCEPT ![r].idx = @ + 1]
    /\ UNCHANGED <<text, nonExVars>>

\* line 113
Return(r) ==
    /\ run[r].pc = "scan"
    /\ run[r].idx > Len(run[r].lines)
    /\ run' = [run EXCEPT ![r].pc = "done"]
    /\ UNCHANGED <<text, nonExVars>>

StartRun ==
    [pc |-> "start", lines |-> << >>, idx |-> 0,
     current_semester |-> None, current_section |-> "none",
     curriculum |-> EmptyCurriculum]

\* no call of generate_recommendations in progress
IdleGr ==
    [pc |-> "idle", profile_scores |-> << >>, best_profile |-> 0, best_score |-> 0,
     dominant_profile |-> "None", preferences |-> << >>, profile_description |-> "",
     categorized |-> << >>, i |-> 0, recommendations |-> << >>, result |-> << >>]

RecIdle == background_text = "" /\ curriculum = EmptyCurriculum /\ gr = IdleGr
ExIdle == text = "" /\ run = [r \in {1} |-> [StartRun EXCEPT !.pc = "idle"]]
FaqIdle == question = << >> /\ programs_data = << >> /\ fq = << >>

\* bot.py line 35: no profile stored; no update received
IdleBot == [user_profiles |-> << >>, tasks |-> << >>]
BotIdle == bot = IdleBot

\* one call of extract_curriculum_data on a text of at most MaxLines lines
Init ==
    /\ text \in Texts
    /\ run = [r \in {1} |-> StartRun]
    /\ RecIdle
    /\ FaqIdle
    /\ BotIdle

Next ==
    \E r \in Runs :
        \/ Begin(r)
        \/ BlankLine(r)
        \/ SemesterHeader(r)
        \/ MandatoryHeader(r)
        \/ ElectiveHeader(r)
        \/ CourseLine(r)
        \/ NoiseLine(r)
        \/ Return(r)

Spec == Init /\ [][Next]_vars

\* two calls of extract_curriculum_data on the same text, interleaved line
\* by line
TextsDet == {JoinLines(ls) : ls \in UNION {[1..n -> LinePool] : n \in 0..MaxLinesDet}}

InitDet ==
    /\ text \in TextsDet
    /\ run = [r \in {1, 2} |-> StartRun]
    /\ RecIdle
    /\ FaqIdle
    /\ BotIdle

SpecDet == InitDet /\ [][Next]_vars

\* ------------------------------------------------------------------------
\* Properties of extract_curriculum_data
\* ------------------------------------------------------------------------

\* the lines already consumed by run r that the course branch has taken,
\* in text order
SourceLines(r) ==
    SelectSeq(SubSeq(run[r].lines, 1, run[r].idx - 1), LAMBDA l : KindOf(l) = "course")

\* the digits a stripped line ends with
TrailingDigits(raw) ==
    LET line == Strip(raw)
    IN  SubSeq(line, Min({i \in 1..Len(line) : AllDigits(line, i, Len(line))}), Len(line))

TrailingDigitsTable == [raw \in DOMAIN CourseInfoTable |-> TrailingDigits(raw)]
TrailingToken(raw) ==
    IF raw \in DOMAIN TrailingDigitsTable THEN TrailingDigitsTable[raw] ELSE TrailingDigits(raw)

\* C1: every recorded course has credits and hours split from the trailing
\* numeric token of its line: with 4 or more digits credits is the first
\* digit and hours the remaining digits; with 1 to 3 digits credits is the
\* whole token and hours is 0.
C1_CreditsHoursSplit ==
    \A r \in Runs :
        run[r].pc # "start" =>
            LET src == SourceLines(r)
                all == run[r].curriculum.all_courses
            IN  /\ Len(all) = Len(src)
                /\ \A j \in 1..Len(all) :
                      LET tok == TrailingToken(src[j])
                      IN  IF Len(tok) >= 4
                          THEN /\ all[j].credits = DigitVal(Char(tok, 1))
                               /\ all[j].hours = ToInt(From(tok, 2))
                          ELSE /\ Len(tok) \in 1..3
                               /\ all[j].credits = ToInt(tok)
                               /\ all[j].hours = 0

\* a finished run that recorded a course from a 4-digit token and a course
\* from a shorter token
C1_Witness ==
    \E r \in Runs :
        /\ run[r].pc = "done"
        /\ \E j, k \in 1..Len(SourceLines(r)) :
              /\ Len(TrailingToken(SourceLines(r)[j])) >= 4
              /\ Len(TrailingToken(SourceLines(r)[k])) < 4
              /\ run[r].curriculum.all_courses[j].hours > 0

OfType(courses, type) == SelectSeq(courses, LAMBDA c : c.type = type)
InSemester(courses, n) == SelectSeq(courses, LAMBDA c : c.semester = n)

\* C10: every recorded course is mandatory or elective and is in the global
\* list of its type only; it is in one semester bucket, the one of its
\* semester and type; all_courses holds the courses of both lists in the
\* order of their lines, so |all_courses| = |mandatory| + |elective|.
C10_CourseLists ==
    \A r \in Runs :
        run[r].pc # "start" =>
            LET cur == run[r].curriculum
                all == cur.all_courses
                src == SourceLines(r)
            IN  /\ \A j \in 1..Len(all) : all[j].type \in {"mandatory", "elective"}
                /\ cur.mandatory_courses = OfType(all, "mandatory")
                /\ cur.elective_courses = OfType(all, "elective")
                /\ Len(all) = Len(cur.mandatory_courses) + Len(cur.elective_courses)
                /\ \A j \in 1..Len(all) : HasSemester(cur.semesters, all[j].semester)
                /\ \A k, m \in 1..Len(cur.semesters) :
                      cur.semesters[k].num = cur.semesters[m].num => k = m
                /\ \A k \in 1..Len(cur.semesters) :
                      /\ cur.semesters[k].mandatory =
                            OfType(InSemester(all, cur.semesters[k].num), "mandatory")
                      /\ cur.semesters[k].elective =
                            OfType(InSemester(all, cur.semesters[k].num), "elective")
                /\ Len(all) = Len(src)
                /\ \A j \in 1..Len(all) :
                      all[j].name = CourseOf(src[j], "none").name

\* a finished run with a mandatory and an elective course recorded
C10_Witness ==
    \E r \in Runs :
        /\ run[r].pc = "done"
        /\ Len(run[r].curriculum.mandatory_courses) > 0
        /\ Len(run[r].curriculum.elective_courses) > 0
        /\ Len(run[r].curriculum.all_courses) = 3

categories ==
    <<
      [key |-> "machine_learning",
       keywords |-> << "MAWINNOE OBUQENIE", "machine learning", "ml",
                      "GLUBOKOE OBUQENIE", "deep learning", "NEJRONNYE SETI",
                      "neural networks", "AVTOMATIQESKOE" >>,
       description |-> "^MAWINNOE OBUQENIE I ^I^I"],
      [key |-> "programming",
       keywords |-> << "PROGRAMMIROVANIE", "python", "c++", "RAZRABOTKA",
                      "VEB-PRILOXENIJ", "MIKROSERVISOV", "backend",
                      "@ZYKI PROGRAMMIROVANI@" >>,
       description |-> "^PROGRAMMIROVANIE I RAZRABOTKA"],
      [key |-> "computer_vision",
       keywords |-> << "KOMP'$TERNOE ZRENIE", "computer vision", "IZOBRAXENIJ",
                      "OBRABOTKA IZOBRAXENIJ", "GENERACI@ IZOBRAXENIJ",
                      "MUL'TIMODAL'NYE" >>,
       description |-> "^KOMP'$TERNOE ZRENIE"],
      [key |-> "nlp",
       keywords |-> << "ESTESTVENNOGO @ZYKA", "nlp", "OBRABOTKA TEKSTOV",
                      "@ZYKOVYE MODELI", "llm", "GENERATIVNYE MODELI", "RAZGOVORNOGO" >>,
       description |-> "^OBRABOTKA ESTESTVENNOGO @ZYKA"],
      [key |-> "data_science",
       keywords |-> << "DANNYE", "data", "STATISTIKA", "ANALIZ", "VIZUALIZACI@",
                      "VREMENNYE R@DY", "big data", "BOL'WIH DANNYH" >>,
       description |-> "^NAUKA O DANNYH"],
      [key |-> "systems",
       keywords |-> << "SISTEMY", "mlops", "devops", "KONTEJNERIZACI@", "gpu", "unix",
                      "BAZY DANNYH", "INFRASTRUKTURA", "ARHITEKTURA" >>,
       description |-> "^SISTEMY I INFRASTRUKTURA"],
      [key |-> "product",
       keywords |-> << "PRODUKT", "product", "BIZNES", "UPRAVLENIE", "PROEKT",
                      "ANALITIKA", "DIZAJN", "PROTOTIPIROVANIE" >>,
       description |-> "^PRODUKTOVOE UPRAVLENIE"] >>

\* lines 179-332: the archetype registry, in declaration order
user_profiles ==
    <<
      [key |-> "fullstack_developer",
       keywords |-> << "FULLSTEK", "fullstack", "full-stack", "full stack",
                      "RAZRABOTQIK", "PROGRAMMIST", "developer", "programmer",
                      "FRONTEND", "frontend", "front-end", "B&KEND", "backend",
                      "back-end", "SERVISY", "services", "VEB", "web", "PRILOXENI@",
                      "applications", "INFRASTRUKTURA", "infrastructure", "devops",
                      "python", "javascript", "react", "node", "django", "flask",
                      "api", "rest", "MIKROSERVISY", "microservices", "@NDEKS",
                      "yandex", "OPYT", "experience", "RABOTA$", "RABOTAL" >>,
       preferences |-> << "programming", "systems", "machine_learning" >>,
       description |-> "^fullstack RAZRABOTQIK"],
      [key |-> "ml_engineer",
       keywords |-> << "ml engineer", "MAWINNOE OBUQENIE", "machine learning", "ml",
                      "MODELI", "models", "ALGORITMY", "algorithms", "NEJRONNYE SETI",
                      "deep learning", "GLUBOKOE OBUQENIE", "tensorflow", "pytorch",
                      "sklearn", "data science", "ai", "artificial intelligence",
                      "kaggle", "SOREVNOVANI@", "competitions" >>,
       preferences |-> << "machine_learning", "programming", "systems" >>,
       description |-> "^m^l ^engineer"],
      [key |-> "data_scientist",
       keywords |-> << "data scientist", "DANNYE", "data", "ANALITIK", "analyst",
                      "STATISTIKA", "statistics", "ANALIZ DANNYH", "data analysis",
                      "pandas", "numpy", "jupyter", "visualization", "VIZUALIZACI@",
                      "bi", "business intelligence", "DAWBORDY", "dashboards" >>,
       preferences |-> << "data_science", "machine_learning", "programming" >>,
       description |-> "^data ^scientist"],
      [key |-> "cv_specialist",
       keywords |-> << "computer vision", "KOMP'$TERNOE ZRENIE", "cv", "IZOBRAXENI@",
                      "images", "opencv", "OBRABOTKA IZOBRAXENIJ", "image processing",
                      "RASPOZNAVANIE", "recognition", "DETEKCI@", "detection",
                      "SEGMENTACI@", "segmentation", "yolo", "cnn" >>,
       preferences |-> << "computer_vision", "machine_learning", "programming" >>,
       description |-> "^computer ^vision SPECIALIST"],
      [key |-> "nlp_specialist",
       keywords |-> << "nlp", "natural language processing", "ESTESTVENNYJ @ZYK",
                      "OBRABOTKA @ZYKA", "TEKST", "text", "@ZYKOVYE MODELI",
                      "language models", "llm", "bert", "gpt", "transformers",
                      "QATBOTY", "chatbots", "sentiment", "TONAL'NOST'" >>,
       preferences |-> << "nlp", "machine_learning", "programming" >>,
       description |-> "^n^l^p SPECIALIST"],
      [key |-> "product_manager",
       keywords |-> << "product manager", "PRODUKT", "product", "MENEDXER", "manager",
                      "UPRAVLENIE", "management", "BIZNES", "business", "STRATEGI@",
                      "strategy", "roadmap", "PLANIROVANIE", "planning",
                      "PRODUKTOVYJ", "ANALITIKA", "analytics", "METRIKI", "metrics",
                      "a/b TESTY" >>,
       preferences |-> << "product", "data_science", "machine_learning" >>,
       description |-> "^product ^manager"],
      [key |-> "systems_architect",
       keywords |-> << "ARHITEKTOR", "architect", "SISTEMY", "systems", "ARHITEKTURA",
                      "architecture", "VYSOKONAGRUXENNYE", "highload", "high-load",
                      "MASWTABIROVANIE", "scaling", "PROIZVODITEL'NOST'",
                      "performance", "INFRASTRUKTURA", "infrastructure", "OBLAKO",
                      "cloud", "kubernetes", "docker", "MIKROSERVISY" >>,
       preferences |-> << "systems", "programming", "machine_learning" >>,
       description |-> "^SISTEMNYJ ARHITEKTOR"],
      [key |-> "backend_developer",
       keywords |-> << "backend", "B&KEND", "SERVERNA@ RAZRABOTKA", "server-side",
                      "api", "rest", "graphql", "BAZY DANNYH", "databases",
                      "postgresql", "mysql", "mongodb", "redis", "java", "go", "c#",
                      "node.js", "spring" >>,
       preferences |-> << "programming", "systems", "data_science" >>,
       description |-> "^backend RAZRABOTQIK"],
      [key |-> "frontend_developer",
       keywords |-> << "frontend", "FRONTEND", "KLIENTSKA@ RAZRABOTKA", "client-side",
                      "react", "vue", "angular", "javascript", "typescript", "html",
                      "css", "ui", "ux", "INTERFEJSY", "interfaces" >>,
       preferences |-> << "programming", "product", "machine_learning" >>,
       description |-> "^frontend RAZRABOTQIK"],
      [key |-> "mobile_developer",
       keywords |-> << "mobile", "MOBIL'NA@ RAZRABOTKA", "android", "ios",
                      "react native", "flutter", "swift", "kotlin", "PRILOXENI@",
                      "apps", "MOBIL'NYE PRILOXENI@" >>,
       preferences |-> << "programming", "product", "systems" >>,
       description |-> "^mobile RAZRABOTQIK"],
      [key |-> "devops_engineer",
       keywords |-> << "devops", "DEPLOJ", "deployment", "ci/cd", "jenkins", "gitlab",
                      "github actions", "terraform", "ansible", "MONITORING",
                      "monitoring", "LOGIROVANIE", "logging" >>,
       preferences |-> << "systems", "programming", "machine_learning" >>,
       description |-> "^dev^ops ^engineer"],
      [key |-> "qa_engineer",
       keywords |-> << "qa", "TESTIROVANIE", "testing", "AVTOTESTY", "automation",
                      "selenium", "pytest", "KAQESTVO", "quality assurance", "BAGI",
                      "bugs", "TEST-KEJSY", "test cases" >>,
       preferences |-> << "programming", "systems", "product" >>,
       description |-> "^q^a ^engineer"],
      [key |-> "business_analyst",
       keywords |-> << "business analyst", "BIZNES-ANALITIK", "ANALITIK", "TREBOVANI@",
                      "requirements", "PROCESSY", "processes", "DOKUMENTACI@",
                      "documentation", "stakeholders" >>,
       preferences |-> << "product", "data_science", "programming" >>,
       description |-> "^BIZNES-ANALITIK"],
      [key |-> "researcher",
       keywords |-> << "ISSLEDOVATEL'", "researcher", "NAUKA", "science",
                      "ISSLEDOVANI@", "research", "PUBLIKACII", "papers",
                      "&KSPERIMENTY", "experiments", "phd", "KANDIDAT NAUK" >>,
       preferences |-> << "machine_learning", "data_science", "programming" >>,
       description |-> "^ISSLEDOVATEL'"],
      [key |-> "student",
       keywords |-> << "STUDENT", "student", "UQUS'", "studying", "UNIVERSITET", "VUZ",
                      "INSTITUT", "KURSOVYE", "DIPLOMNA@", "thesis", "BAKALAVR",
                      "bachelor", "MAGISTR", "master" >>,
       preferences |-> << "machine_learning", "programming", "data_science" >>,
       description |-> "^STUDENT"] >>

\* keys of the dict categorize_subjects returns (lines 155-156)
BucketKeys == {categories[k].key : k \in 1..Len(categories)} \cup {"other"}
BucketOrder == [k \in 1..(Len(categories) + 1) |->
                   IF k <= Len(categories) THEN categories[k].key ELSE "other"]

\* line 165: the categories (by position) with a keyword in the lowercased name
MatchingCategories(course_name) ==
    {k \in 1..Len(categories) :
        \E j \in 1..Len(categories[k].keywords) :
            Contains(Lower(course_name), categories[k].keywords[j])}

\* lines 161-171 with the last matching category winning instead of the first
AddCourse_lastMatch(categorized, course, matching) ==
    IF matching # {}
    THEN [categorized EXCEPT ![categories[Max(matching)].key] = Append(@, course)]
    ELSE [categorized EXCEPT !["other"] = Append(@, course)]

\* lines 161-171 without the break: the course is appended to every
\* category with a matching keyword
AddCourse_noBreak(categorized, course, matching) ==
    [cat \in DOMAIN categorized |->
        IF \/ \E k \in matching : categories[k].key = cat
           \/ matching = {} /\ cat = "other"
        THEN Append(categorized[cat], course)
        ELSE categorized[cat]]

\* lines 161-171: the body of the loop over all_courses; matching is the
\* set of categories whose keyword test (line 165) succeeds for the course
AddCourse(categorized, course, matching) ==
    IF matching # {}
    THEN [categorized EXCEPT ![categories[Min(matching)].key] = Append(@, course)]
    ELSE [categorized EXCEPT !["other"] = Append(@, course)]

\* ------------------------------------------------------------------------
\* Inputs of generate_recommendations
\* ------------------------------------------------------------------------
MaxWords == 2        \* words of a biography text
MaxCourses == 6      \* courses of a curriculum

\* words a biography text is made of
Vocabulary ==
    { "devops", "html", "^KOD", "PROGRAMMIST", "PROSTO", "^m^l ^engineer",
      "ANALITIK", "product manager" }

RECURSIVE JoinWords(_)
JoinWords(ws) ==
    IF ws = << >> THEN ""
    ELSE IF Len(ws) = 1 THEN ws[1]
    ELSE ws[1] \o " " \o JoinWords(Tail(ws))

WordSeqs(n) == UNION {[1..m -> Vocabulary] : m \in 0..n}
Backgrounds == {JoinWords(ws) : ws \in WordSeqs(MaxWords)}
ShortBackgrounds == {JoinWords(ws) : ws \in WordSeqs(1)}

\* courses a curriculum is made of, in the order of the plan
Catalog ==
    << [name |-> "^PROGRAMMIROVANIE NA ^python", credits |-> 6, hours |-> 108, semester |-> 1, type |-> "elective"],
       [name |-> "^RAZRABOTKA VEB-PRILOXENIJ", credits |-> 8, hours |-> 216, semester |-> 1, type |-> "elective"],
       [name |-> "^@ZYKI PROGRAMMIROVANI@", credits |-> 6, hours |-> 108, semester |-> 2, type |-> "elective"],
       [name |-> "^backend RAZRABOTKA", credits |-> 4, hours |-> 0, semester |-> 2, type |-> "elective"],
       [name |-> "^c++ DL@ NAQINA$%IH", credits |-> 2, hours |-> 72, semester |-> 1, type |-> "elective"],
       [name |-> "^MAWINNOE OBUQENIE NA ^python", credits |-> 5, hours |-> 108, semester |-> 2, type |-> "elective"],
       [name |-> "^GLUBOKOE OBUQENIE", credits |-> 7, hours |-> 216, semester |-> 3, type |-> "elective"],
       [name |-> "^BAZY DANNYH", credits |-> 3, hours |-> 108, semester |-> 1, type |-> "elective"],
       [name |-> "^FILOSOFI@", credits |-> 3, hours |-> 0, semester |-> 1, type |-> "elective"],
       [name |-> "^ANALIZ DANNYH", credits |-> 4, hours |-> 108, semester |-> 3, type |-> "elective"],
       [name |-> "^PROGRAMMIROVANIE NA ^c++", credits |-> 9, hours |-> 306, semester |-> 1, type |-> "mandatory"] >>

\* the curriculum extract_curriculum_data builds from the courses cs
RECURSIVE CurriculumOf(_)
CurriculumOf(cs) ==
    IF cs = << >> THEN EmptyCurriculum
    ELSE RecordCourse(CurriculumOf(SubSeq(cs, 1, Len(cs) - 1)), cs[Len(cs)])

\* the courses of the catalog at the positions S, in catalog order
RECURSIVE Pick(_, _)
Pick(S, k) ==
    IF k > Len(Catalog) THEN << >>
    ELSE IF k \in S THEN <<Catalog[k]>> \o Pick(S, k + 1)
    ELSE Pick(S, k + 1)

Curricula(n) ==
    {CurriculumOf(Pick(S, 1)) : S \in {T \in SUBSET (1..Len(Catalog)) : Cardinality(T) <= n}}

\* curricula without the 'all_courses' key (line 158 reads it with get)
PartialCurricula ==
    {[program_name |-> "^I^I", semesters |-> << >>],
     [program_name |-> "", semesters |-> << >>,
      elective_courses |-> <<Catalog[1]>>, mandatory_courses |-> << >>]}

\* a plan with more electives than the limit of line 395 in each of the
\* categories machine_learning (5), programming (4) and data_science (3)
LargePlan ==
    << Catalog[6], Catalog[7],
       [name |-> "^NEJRONNYE SETI", credits |-> 6, hours |-> 108, semester |-> 2, type |-> "elective"],
       [name |-> "^deep learning", credits |-> 5, hours |-> 108, semester |-> 3, type |-> "elective"],
       [name |-> "^AVTOMATIQESKOE OBUQENIE", credits |-> 3, hours |-> 72, semester |-> 3, type |-> "elective"],
       Catalog[1], Catalog[2], Catalog[3], Catalog[4],
       Catalog[10],
       [name |-> "^STATISTIKA", credits |-> 4, hours |-> 108, semester |-> 1, type |-> "elective"],
       [name |-> "^VIZUALIZACI@", credits |-> 2, hours |-> 72, semester |-> 2, type |-> "elective"] >>

\* the large plan, and a plan that lists one course twice
SpecialCurricula ==
    {CurriculumOf(LargePlan), CurriculumOf(<<Catalog[1], Catalog[1], Catalog[7]>>)}

\* MatchingCategories tabulated for the names of the catalog
CatalogNames ==
    {Catalog[k].name : k \in 1..Len(Catalog)} \cup {LargePlan[k].name : k \in 1..Len(LargePlan)}
MatchingTable == [n \in CatalogNames |-> MatchingCategories(n)]
MatchingOf(course) ==
    IF course.name \in CatalogNames THEN MatchingTable[course.name]
    ELSE MatchingCategories(course.name)

\* lines 155-173
RECURSIVE CategorizeFrom(_, _)
CategorizeFrom(courses, categorized) ==
    IF courses = << >> THEN categorized
    ELSE CategorizeFrom(Tail(courses),
                        AddCourse(categorized, Head(courses), MatchingOf(Head(courses))))

\* dict.get(key, []): the list under key, empty when the key is missing
GetList(d, key) == IF key \in DOMAIN d THEN d[key] ELSE << >>

\* categorize_subjects without the 'other' bucket of line 156
categorize_subjects_noOther(cur) ==
    LET full == CategorizeFrom(GetList(cur, "all_courses"), [cat \in BucketKeys |-> << >>])
    IN  [cat \in BucketKeys \ {"other"} |-> full[cat]]

categorize_subjects(cur) ==
    CategorizeFrom(GetList(cur, "all_courses"), [cat \in BucketKeys |-> << >>])

\* ------------------------------------------------------------------------
\* generate_recommendations
\* ------------------------------------------------------------------------

\* lines 342-345
MatchedKeywords(profile, background_lower) ==
    SelectSeq(profile.keywords, LAMBDA keyword : Contains(background_lower, keyword))

\* lines 339-354 without the bonus of lines 347-349: the raw count, in tenths
ProfileScore_raw(profile, background_lower) ==
    LET matched_keywords == MatchedKeywords(profile, background_lower)
    IN  [score |-> 10 * Len(matched_keywords),
         matched_keywords |-> matched_keywords]

\* lines 339-354 with a penalty in place of the bonus of line 349:
\* score * (1 - n * 0.1) / n, decreasing in the count
ProfileScore_penalty(profile, background_lower) ==
    LET matched_keywords == MatchedKeywords(profile, background_lower)
        score == Len(matched_keywords)
    IN  [score |-> IF score > 0 THEN 100 - score ELSE 0,
         matched_keywords |-> matched_keywords]

\* lines 339-354.  Scores are kept in tenths: score * (1 + n * 0.1) is
\* n * (10 + n) / 10, and the floating-point values of the program stand
\* in the same order (two of them differ by more than 1 or are equal).
ProfileScore(profile, background_lower) ==
    LET matched_keywords == MatchedKeywords(profile, background_lower)
        score == Len(matched_keywords)
    IN  [score |-> IF score > 0 THEN score * (10 + Len(matched_keywords)) ELSE 0,
         matched_keywords |-> matched_keywords]

\* lines 335-354: profile_scores, by position in the registry
ScoreProfiles(t) ==
    [k \in 1..Len(user_profiles) |-> ProfileScore(user_profiles[k], Lower(t))]

\* line 371 testing the text as typed, not lowercased
IsGeneralDeveloper_raw(t) ==
    \E word \in {"PROGRAMMIST", "RAZRABOTQIK", "developer", "KOD", "code"} :
        Contains(t, word)

\* line 371
IsGeneralDeveloper(t) ==
    \E word \in {"PROGRAMMIST", "RAZRABOTQIK", "developer", "KOD", "code"} :
        Contains(Lower(t), word)

\* both tabulated for the biography texts of the model
ScoreTable == [t \in Backgrounds |-> ScoreProfiles(t)]
DeveloperTable == [t \in Backgrounds |-> IsGeneralDeveloper(t)]
ScoresOf(t) == IF t \in Backgrounds THEN ScoreTable[t] ELSE ScoreProfiles(t)
DeveloperOf(t) == IF t \in Backgrounds THEN DeveloperTable[t] ELSE IsGeneralDeveloper(t)

\* line 361 with >= in place of >
Better_orEqual(score, best_score) == score >= best_score

\* line 361
Better(score, best_score) == score > best_score

\* lines 357-363: the loop over profile_scores from position k on
RECURSIVE BestFrom(_, _, _)
BestFrom(scores, k, best) ==
    IF k > Len(scores) THEN best
    ELSE IF Better(scores[k].score, best.best_score)
         THEN BestFrom(scores, k + 1, [best_profile |-> k, best_score |-> scores[k].score])
         ELSE BestFrom(scores, k + 1, best)

FindBest(scores) == BestFrom(scores, 1, [best_profile |-> 0, best_score |-> 0])

\* comparison of two key tuples of the same length
TupleLess(a, b) ==
    \E k \in 1..Len(a) : a[k] < b[k] /\ \A j \in 1..(k - 1) : a[j] = b[j]

\* insertion of [key, val] into a list sorted descending by key, behind
\* the entries whose key is not smaller
RECURSIVE InsertDesc(_, _)
InsertDesc(sorted, x) ==
    IF sorted = << >> THEN <<x>>
    ELSE IF TupleLess(Head(sorted).key, x.key) THEN <<x>> \o sorted
    ELSE <<Head(sorted)>> \o InsertDesc(Tail(sorted), x)

RECURSIVE SortKeyed(_)
SortKeyed(keyed) ==
    IF keyed = << >> THEN << >>
    ELSE InsertDesc(SortKeyed(SubSeq(keyed, 1, Len(keyed) - 1)), keyed[Len(keyed)])

\* list.sort(key=Key, reverse=True): stable, descending
SortDesc(seq, keys) ==
    LET sorted == SortKeyed([j \in 1..Len(seq) |-> [key |-> keys[j], val |-> seq[j]]])
    IN  [j \in 1..Len(sorted) |-> sorted[j].val]

\* line 392: key=lambda x: x.get('credits', 0)
KeyCredits(x) == <<x.credits>>

\* the key of line 409 without the priority
KeyPriorityCredits_creditsOnly(x) == <<x.credits>>

\* line 409: key=lambda x: (x.get('priority', 0), x.get('credits', 0))
KeyPriorityCredits(x) == <<x.priority, x.credits>>

\* line 395 with one course more for every category
Limit_five(i) == IF 5 - i > 1 THEN 5 - i ELSE 1

\* line 395 with the same limit for every category
Limit_three(i) == 3

\* line 395
Limit(i) == IF 4 - i > 1 THEN 4 - i ELSE 1

\* lines 397-399 with the suffix of line 399 added to the archetype text only
Reason_plainBaseline(dominant_profile, profile_description, i) ==
    IF dominant_profile # "None"
    THEN "^REKOMENDOVANO DL@ " \o profile_description
         \o (IF i = 0 THEN " (PRIORITETNA@ OBLAST')" ELSE "")
    ELSE "^BAZOVA@ REKOMENDACI@"

\* lines 397-399
Reason(dominant_profile, profile_description, i) ==
    (IF dominant_profile # "None"
     THEN "^REKOMENDOVANO DL@ " \o profile_description
     ELSE "^BAZOVA@ REKOMENDACI@")
    \o (IF i = 0 THEN " (PRIORITETNA@ OBLAST')" ELSE "")

\* lines 388-406: the recommendations of the category at position i
\* (0-based) of the preference order
CategoryRecs(g, i) ==
    LET category == g.preferences[i + 1]
        subjects == IF category \in DOMAIN g.categorized
                    THEN g.categorized[category] ELSE << >>
        electives == SelectSeq(subjects, LAMBDA c : c.type = "elective")
        elective_subjects == SortDesc(electives,
                                      [j \in 1..Len(electives) |-> KeyCredits(electives[j])])
        n == IF Len(elective_subjects) < Limit(i) THEN Len(elective_subjects) ELSE Limit(i)
    IN  [j \in 1..n |->
            [name |-> elective_subjects[j].name,
             credits |-> elective_subjects[j].credits,
             hours |-> elective_subjects[j].hours,
             semester |-> elective_subjects[j].semester,
             type |-> elective_subjects[j].type,
             category |-> category,
             reason |-> Reason(g.dominant_profile, g.profile_description, i),
             priority |-> Len(g.preferences) - i]]

\* lines 400-406 storing the three fields in the course dict itself instead
\* of a copy: the writes one pass of the loop makes to course dicts
SharedWrites_inPlace(g, i) ==
    LET recs == CategoryRecs(g, i)
    IN  {[course |-> [name |-> recs[j].name, credits |-> recs[j].credits,
                      hours |-> recs[j].hours, semester |-> recs[j].semester,
                      type |-> recs[j].type],
          category |-> recs[j].category, reason |-> recs[j].reason,
          priority |-> recs[j].priority] : j \in 1..Len(recs)}

\* lines 388-406: the writes one pass of the loop makes to the course dicts
\* it shares with the curriculum.  There are none: line 390 builds a new
\* list, line 392 sorts that list, and line 401 builds a new dict from
\* **subject.
SharedWrites(g, i) == {}

\* a course dict after the writes
Written(c, writes) ==
    IF \E w \in writes : w.course = c
    THEN LET w == CHOOSE w \in writes : w.course = c
         IN  [name |-> c.name, credits |-> c.credits, hours |-> c.hours,
              semester |-> c.semester, type |-> c.type,
              category |-> w.category, reason |-> w.reason, priority |-> w.priority]
    ELSE c

\* the curriculum after writes to course dicts: a course dict is one object
\* held by all_courses, by the list of its type and by its semester bucket
\* (lines 96-111), so a write shows in each of them
ApplyWrites(cur, writes) ==
    IF writes = {} THEN cur
    ELSE [key \in DOMAIN cur |->
            IF key \in {"all_courses", "mandatory_courses", "elective_courses"}
            THEN [j \in 1..Len(cur[key]) |-> Written(cur[key][j], writes)]
            ELSE IF key = "semesters"
            THEN [k \in 1..Len(cur[key]) |->
                    [num |-> cur[key][k].num,
                     mandatory |-> [j \in 1..Len(cur[key][k].mandatory) |->
                                       Written(cur[key][k].mandatory[j], writes)],
                     elective |-> [j \in 1..Len(cur[key][k].elective) |->
                                      Written(cur[key][k].elective[j], writes)]]]
            ELSE cur[key]]

\* recommendations[:10]
Top10(recs) == SubSeq(recs, 1, IF Len(recs) < 10 THEN Len(recs) ELSE 10)

\* lines 335-363
Score ==
    /\ gr.pc = "score"
    /\ LET scores == ScoresOf(background_text)
           best == FindBest(scores)
       IN  gr' = [gr EXCEPT !.pc = "choose",
                            !.profile_scores = scores,
                            !.best_profile = best.best_profile,
                            !.best_score = best.best_score]
    /\ UNCHANGED <<background_text, curriculum, nonRecVars>>

\* lines 365-368
ChooseDetermined ==
    /\ gr.pc = "choose"
    /\ gr.best_profile # 0 /\ gr.best_score > 0
    /\ gr' = [gr EXCEPT !.pc = "categorize",
                        !.dominant_profile = user_profiles[gr.best_profile].key,
                        !.preferences = user_profiles[gr.best_profile].preferences,
                        !.profile_description = user_profiles[gr.best_profile].description]
    /\ UNCHANGED <<background_text, curriculum, nonRecVars>>

\* lines 369-374 with the generic developer terms tested before the scores
ChooseGeneralDeveloper_termsFirst ==
    /\ gr.pc = "choose"
    /\ DeveloperOf(background_text)
    /\ gr' = [gr EXCEPT !.pc = "categorize",
                        !.dominant_profile = "general_developer",
                        !.preferences = <<"programming", "systems", "machine_learning">>,
                        !.profile_description = "^RAZRABOTQIK (OB%IJ PROFIL')"]
    /\ UNCHANGED <<background_text, curriculum, nonRecVars>>

\* lines 369-374
ChooseGeneralDeveloper ==
    /\ gr.pc = "choose"
    /\ ~(gr.best_profile # 0 /\ gr.best_score > 0)
    /\ DeveloperOf(background_text)
    /\ gr' = [gr EXCEPT !.pc = "categorize",
                        !.dominant_profile = "general_developer",
                        !.preferences = <<"programming", "systems", "machine_learning">>,
                        !.profile_description = "^RAZRABOTQIK (OB%IJ PROFIL')"]
    /\ UNCHANGED <<background_text, curriculum, nonRecVars>>

\* lines 375-378
ChooseUndetermined ==
    /\ gr.pc = "choose"
    /\ ~(gr.best_profile # 0 /\ gr.best_score > 0)
    /\ ~DeveloperOf(background_text)
    /\ gr' = [gr EXCEPT !.pc = "categorize",
                        !.dominant_profile = "None",
                        !.preferences = <<"machine_learning", "programming", "data_science">>,
                        !.profile_description = "^NE OPREDELEN"]
    /\ UNCHANGED <<background_text, curriculum, nonRecVars>>

\* line 381
Categorize ==
    /\ gr.pc = "categorize"
    /\ gr' = [gr EXCEPT !.pc = "recommend",
                        !.categorized = categorize_subjects(curriculum),
                        !.i = 0]
    /\ UNCHANGED <<background_text, curriculum, nonRecVars>>

\* lines 387-406: one pass of the loop over the preferences
Recommend ==
    /\ gr.pc = "recommend"
    /\ gr.i < Len(gr.preferences)
    /\ gr' = [gr EXCEPT !.recommendations = @ \o CategoryRecs(gr, gr.i),
                        !.i = @ + 1]
    /\ curriculum' = ApplyWrites(curriculum, SharedWrites(gr, gr.i))
    /\ UNCHANGED <<background_text, nonRecVars>>

\* lines 409-423
ReturnRecs ==
    /\ gr.pc = "recommend"
    /\ gr.i >= Len(gr.preferences)
    /\ LET recs == gr.recommendations
           sorted == SortDesc(recs, [j \in 1..Len(recs) |-> KeyPriorityCredits(recs[j])])
       IN  gr' = [gr EXCEPT
                 !.pc = "done",
                 !.recommendations = sorted,
                 !.result =
                    [user_profile |-> gr.profile_description,
                     dominant_profile_key |-> gr.dominant_profile,
                     profile_scores |-> [k \in 1..Len(gr.profile_scores) |->
                                            gr.profile_scores[k].score],
                     matched_keywords |->
                        IF gr.best_profile # 0
                        THEN gr.profile_scores[gr.best_profile].matched_keywords
                        ELSE << >>,
                     recommendations |-> Top10(sorted),
                     category_distribution |->
                        [cat \in DOMAIN gr.categorized |-> Len(gr.categorized[cat])],
                     analysis |->
                        [total_courses |-> Len(GetList(curriculum, "all_courses")),
                         elective_courses |-> Len(GetList(curriculum, "elective_courses")),
                         categories_found |->
                            Cardinality({cat \in DOMAIN gr.categorized :
                                            gr.categorized[cat] # << >>})]]]
    /\ UNCHANGED <<background_text, curriculum, nonRecVars>>

\* the caller passes the same curriculum dict to a further call (bot.py
\* line 236 passes the loaded program's curriculum at every request)
CallAgain ==
    /\ gr.pc = "done"
    /\ background_text' \in ShortBackgrounds
    /\ gr' = [IdleGr EXCEPT !.pc = "score"]
    /\ UNCHANGED <<curriculum, nonRecVars>>

\* one call of generate_recommendations: long biography texts with small
\* curricula, and one-word texts with curricula of up to MaxCourses courses
InitRec ==
    /\ \/ /\ background_text \in Backgrounds
          /\ curriculum \in Curricula(1) \cup PartialCurricula \cup SpecialCurricula
       \/ background_text \in ShortBackgrounds /\ curriculum \in Curricula(MaxCourses)
    /\ gr = [IdleGr EXCEPT !.pc = "score"]
    /\ ExIdle
    /\ FaqIdle
    /\ BotIdle

NextRec ==
    \/ Score
    \/ ChooseDetermined
    \/ ChooseGeneralDeveloper
    \/ ChooseUndetermined
    \/ Categorize
    \/ Recommend
    \/ ReturnRecs
    \/ CallAgain

SpecRec == InitRec /\ [][NextRec]_vars

\* ------------------------------------------------------------------------
\* Properties of categorize_subjects and generate_recommendations
\* ------------------------------------------------------------------------
Range(seq) == {seq[j] : j \in 1..Len(seq)}

RECURSIVE SumLen(_, _)
SumLen(f, keys) ==
    IF keys = {} THEN 0
    ELSE LET k == CHOOSE x \in keys : TRUE
         IN  Len(f[k]) + SumLen(f, keys \ {k})

Categorized == gr.pc \in {"recommend", "done"}

\* C2: categorize_subjects returns 8 buckets, the 7 registry categories
\* and 'other'; their sizes sum to the number of courses of all_courses,
\* every bucket holds courses of all_courses and no course is in two
\* buckets.
C2_Partition ==
    Categorized =>
        /\ DOMAIN gr.categorized = BucketKeys
        /\ Cardinality(DOMAIN gr.categorized) = 8
        /\ SumLen(gr.categorized, DOMAIN gr.categorized)
              = Len(GetList(curriculum, "all_courses"))
        /\ \A a \in BucketKeys :
              Range(gr.categorized[a]) \subseteq Range(GetList(curriculum, "all_courses"))
        /\ \A a, b \in BucketKeys :
              a # b => Range(gr.categorized[a]) \cap Range(gr.categorized[b]) = {}

\* a categorized curriculum with a course whose name has keywords of two
\* categories and a course that goes to 'other'
C2_Witness ==
    /\ gr.pc = "done"
    /\ \E c \in Range(GetList(curriculum, "all_courses")) : Cardinality(MatchingOf(c)) >= 2
    /\ gr.categorized["other"] # << >>
    /\ Len(GetList(curriculum, "all_courses")) >= 4

\* C3: the returned recommendations are at most 10 and stand in descending
\* order of (priority, credits); an entry of a higher priority precedes
\* every entry of a lower priority.
C3_SortedTop10 ==
    gr.pc = "done" =>
        LET recs == gr.result.recommendations
        IN  /\ Len(recs) <= 10
            /\ \A j \in 1..(Len(recs) - 1) :
                  \/ recs[j].priority > recs[j + 1].priority
                  \/ /\ recs[j].priority = recs[j + 1].priority
                     /\ recs[j].credits >= recs[j + 1].credits
            /\ \A j, k \in 1..Len(recs) :
                  recs[j].priority > recs[k].priority => j < k

\* a returned list where an entry of a higher priority has fewer credits
\* than an entry of a lower priority
C3_Witness ==
    /\ gr.pc = "done"
    /\ Len(gr.result.recommendations) >= 5
    /\ \E j, k \in 1..Len(gr.result.recommendations) :
          /\ gr.result.recommendations[j].priority > gr.result.recommendations[k].priority
          /\ gr.result.recommendations[j].credits < gr.result.recommendations[k].credits

Chosen == gr.pc \in {"categorize", "recommend", "done"}

\* the archetypes (by position) with the greatest score
TopScored(scores) ==
    {k \in 1..Len(scores) : \A j \in 1..Len(scores) : scores[k].score >= scores[j].score}

\* C7: when some archetype has a positive score, the archetype chosen has
\* the greatest adjusted score and is the earliest declared among those
\* that have it.
C7_StableArgmax ==
    (Chosen /\ \E k \in 1..Len(gr.profile_scores) : gr.profile_scores[k].score > 0) =>
        LET first == Min(TopScored(gr.profile_scores))
        IN  /\ gr.dominant_profile = user_profiles[first].key
            /\ gr.preferences = user_profiles[first].preferences
            /\ gr.profile_description = user_profiles[first].description

\* a choice among two or more archetypes that share the greatest positive
\* score, the first of which is not the last of the registry
C7_Witness ==
    /\ gr.pc = "done"
    /\ Cardinality(TopScored(gr.profile_scores)) >= 2
    /\ gr.best_score > 0
    /\ gr.dominant_profile = user_profiles[Min(TopScored(gr.profile_scores))].key

\* C8: the classifier resolves to exactly one of three outcomes: all scores
\* 0 and a generic developer term in the lowercased text: the general
\* developer with [programming, systems, machine_learning]; all scores 0
\* and no such term: undetermined with [machine_learning, programming,
\* data_science]; otherwise an archetype of the registry.  At line 365 one
\* and only one of the three branches can be taken.
C8_ThreeOutcomes ==
    LET allZero == \A k \in 1..Len(gr.profile_scores) : gr.profile_scores[k].score = 0
        developer == \E term \in {"PROGRAMMIST", "RAZRABOTQIK", "developer", "KOD", "code"} :
                        Contains(Lower(background_text), term)
        determined == gr.best_profile # 0 /\ gr.best_score > 0
    IN  /\ gr.pc = "choose" =>
              /\ determined <=> ~allZero
              /\ ENABLED (ChooseDetermined \/ ChooseGeneralDeveloper \/ ChooseUndetermined)
              /\ ~(ENABLED ChooseDetermined /\ ENABLED ChooseGeneralDeveloper)
              /\ ~(ENABLED ChooseDetermined /\ ENABLED ChooseUndetermined)
              /\ ~(ENABLED ChooseGeneralDeveloper /\ ENABLED ChooseUndetermined)
        /\ Chosen =>
              /\ (allZero /\ developer) =>
                    /\ gr.dominant_profile = "general_developer"
                    /\ gr.preferences = <<"programming", "systems", "machine_learning">>
              /\ (allZero /\ ~developer) =>
                    /\ gr.dominant_profile = "None"
                    /\ gr.preferences = <<"machine_learning", "programming", "data_science">>
              /\ ~allZero =>
                    \E k \in 1..Len(user_profiles) :
                        /\ gr.dominant_profile = user_profiles[k].key
                        /\ gr.preferences = user_profiles[k].preferences

\* the general developer chosen for a text with a capitalised generic term
C8_Witness ==
    /\ gr.pc = "done"
    /\ gr.dominant_profile = "general_developer"
    /\ Contains(background_text, "^KOD")

\* ------------------------------------------------------------------------
\* bot.py: ITMOChatBot.is_relevant_question, find_best_answer and
\* message_handler
\* ------------------------------------------------------------------------
MaxPrograms == 2     \* programs of programs_data

\* bot.py lines 38-59: self.relevant_keywords (a set)
relevant_keywords ==
    { "POSTUPLENIE", "POSTUPIT'", "&KZAMEN", "&KZAMENY", "MAGISTRATURA",
         "OBUQENIE", "PROGRAMMA", "PROGRAMMY", "DIPLOM", "STIPENDI@", "KAR'ERA",
         "OBRAZOVANIE", "UQEBA", "UQEBNYJ", "PLAN", "PLANY", "KURS", "KURSY",
         "PREDMET", "PREDMETY", "DISCIPLINA", "DISCIPLINY", "PROEKT", "PRAKTIKA",
         "STAXIROVKA", "ISKUSSTVENNYJ INTELLEKT", "II", "ai", "MAWINNOE OBUQENIE",
         "ml", "PRODUKT", "PRODUKTOVYJ", "VYSOKONAGRUXENNYE", "SISTEMY", "highload",
         "PROGRAMMNOE OBESPEQENIE", "PO", "ITMO", "itmo", "UNIVERSITET", "VUZ",
         "INSTITUT", "SODERXANIE", "SODERXANII", "QTO IZUQA$T", "QTO IZUQAETS@",
         "QEMU UQAT", "QEMU OBUQA$T", "KOLIQESTVO", "SKOL'KO", "MESTA", "MEST",
         "B$DXET", "B$DXETNYE", "PLATNYE", "STOIMOST'", "CENA", "OPLATA", "STOIT",
         "STOIMOSTI", "TREBOVANI@", "USLOVI@", "KAK POSTUPIT'", "DOKUMENTY",
         "DLITEL'NOST'", "SROK", "GODA", "LET", "SEMESTR", "SEMESTRY",
         "PREPODAVATELI", "KAFEDRA", "FAKUL'TET", "NAPRAVLENIE", "VYPUSKNIKI",
         "TRUDOUSTROJSTVO", "RABOTA" }

\* bot.py line 114
important_words ==
    { "SODERXANIE", "PROGRAMMA", "KOLIQESTVO", "MESTA", "STOIMOST'", "POSTUPLENIE", "&KZAMEN" }

\* bot.py lines 120-125
question_types ==
    << << "QTO", "KAKOE", "KAKA@", "KAKIE" >>,
       << "SKOL'KO", "KOLIQESTVO" >>,
       << "KAK", "KAKIM OBRAZOM" >>,
       << "KOGDA", "SROK", "VREM@" >> >>

\* lines 73-76
is_relevant_question(q) ==
    LET question_lower == Lower(q)
    IN  \E keyword \in relevant_keywords : Contains(question_lower, keyword)

\* set(s.split()): the maximal runs of non-blank characters
Words(s) ==
    {SubSeq(s, w[1], w[2]) :
        w \in {v \in (1..Len(s)) \X (1..Len(s)) :
                /\ v[1] <= v[2]
                /\ \A k \in v[1]..v[2] : ~IsSpace(Char(s, k))
                /\ (v[1] = 1 \/ IsSpace(Char(s, v[1] - 1)))
                /\ (v[2] = Len(s) \/ IsSpace(Char(s, v[2] + 1)))}}

\* the length of the longest common block of a and b that starts at a[i], b[j]
CommonAt(a, b, i, j) ==
    Max({k \in 0..Min({Len(a) - i + 1, Len(b) - j + 1}) :
            \A d \in 0..(k - 1) : Char(a, i + d) = Char(b, j + d)})

\* difflib.SequenceMatcher.find_longest_match, no junk (the texts are
\* shorter than the 200 characters of the autojunk heuristic): a longest
\* block, of these the earliest in a, of these the earliest in b
LongestMatch(a, b) ==
    LET blocks == {<<i, j, CommonAt(a, b, i, j)>> : i \in 1..Len(a), j \in 1..Len(b)}
        size == Max({m[3] : m \in blocks})
        i0 == Min({m[1] : m \in {n \in blocks : n[3] = size}})
        j0 == Min({m[2] : m \in {n \in blocks : n[3] = size /\ n[1] = i0}})
    IN  <<i0, j0, size>>

\* difflib.SequenceMatcher.get_matching_blocks: the sizes of the longest
\* block and of the blocks matched left and right of it, summed
RECURSIVE Matches(_, _)
Matches(a, b) ==
    IF Len(a) = 0 \/ Len(b) = 0 THEN 0
    ELSE LET m == LongestMatch(a, b)
         IN  IF m[3] = 0 THEN 0
             ELSE m[3] + Matches(SubSeq(a, 1, m[1] - 1), SubSeq(b, 1, m[2] - 1))
                       + Matches(From(a, m[1] + m[3]), From(b, m[2] + m[3]))

\* difflib.SequenceMatcher(None, a, b).ratio() as the fraction
\* 2 * matches / (len(a) + len(b)); 1 for two empty texts
Ratio(a, b) ==
    IF Len(a) + Len(b) = 0 THEN [num |-> 1, den |-> 1]
    ELSE [num |-> 2 * Matches(a, b), den |-> Len(a) + Len(b)]

\* lines 95-137: the composite score of one FAQ entry as an exact fraction
\* of integers, with the words common to both questions
\*   0.4 * similarity + 0.3 * word_overlap + 0.2 * answer_score + bonus,
\*   bonus = 0.2 per important word + 0.15 per question type
total_score(q, faq_item) ==
    LET question_lower == Lower(q)
        question_words == Words(question_lower)
        faq_question == Lower(faq_item.question)
        faq_answer == Lower(faq_item.answer)
        faq_words == Words(faq_question)
        similarity == Ratio(question_lower, faq_question)
        common_words == question_words \cap faq_words
        n == Max({Cardinality(question_words), 1})
        answer_matches == Cardinality({word \in question_words : Contains(faq_answer, word)})
        important == Cardinality({word \in important_words :
                        Contains(question_lower, word) /\ Contains(faq_question, word)})
        types == Cardinality({t \in 1..Len(question_types) :
                        /\ \E v \in 1..Len(question_types[t]) :
                              Contains(question_lower, question_types[t][v])
                        /\ \E v \in 1..Len(question_types[t]) :
                              Contains(faq_question, question_types[t][v])})
    IN  [num |-> 40 * similarity.num * n
                 + 30 * Cardinality(common_words) * similarity.den
                 + 20 * answer_matches * similarity.den
                 + (20 * important + 15 * types) * similarity.den * n,
         den |-> 100 * similarity.den * n,
         common_words |-> common_words]

\* x > y for two fractions with positive denominators
Greater(x, y) == x.num * y.den > y.num * x.den

\* line 85: best_score = 0
ZeroScore == [num |-> 0, den |-> 1]

\* line 140: the floor 0.2
Floor == [num |-> 2, den |-> 10]

\* the replace rule of line 140 without the floor
Replaces_noFloor(total, best) == Greater(total, best)

\* the replace rule of line 140 with >= in place of the first >
Replaces_orEqual(total, best) == ~Greater(best, total) /\ Greater(total, Floor)

\* line 140: total_score > best_score and total_score > 0.2
Replaces(total, best) == Greater(total, best) /\ Greater(total, Floor)

\* line 84: best_match = None; a match is a one-element sequence
NoMatch == << >>

\* the questions of the model: two without a relevance keyword, four with
QuestionPool ==
    {"^PRIVET KAK DELA?", "^QTO NOVOGO?", "^SKOL'KO STOIT OBUQENIE?", "ai",
     "^KAK POSTUPIT'?", "^SODERXANIE PROGRAMMY"}

\* the programs of the model as load_programs_data returns them (lines
\* 61-71); one program has no 'faq' key
ProgramPool ==
    {[name |-> "^I^I", has_faq |-> TRUE,
      faq |-> <<[question |-> "^KAK POSTUPIT' NA PROGRAMMU?",
                 answer |-> "^NUXNO PODAT' DOKUMENTY"],
                [question |-> "^SKOL'KO STOIT OBUQENIE?",
                 answer |-> "599 000 RUBLEJ V GOD"]>>],
     [name |-> "^I^I-PRODUKT", has_faq |-> FALSE, faq |-> << >>],
     [name |-> "^highload", has_faq |-> TRUE,
      faq |-> <<[question |-> "^GDE?", answer |-> "^KURS ai I ml"],
                [question |-> "^KAK POSTUPIT'?", answer |-> "^PODAT' DOKUMENTY"]>>],
     [name |-> "^P^O", has_faq |-> TRUE,
      faq |-> <<[question |-> "^SKOL'KO STOIT OBUQENIE?",
                 answer |-> "599 000 RUBLEJ V GOD"]>>]}

\* programs_data: up to MaxPrograms programs with distinct names (the keys
\* of a dict), in insertion order
Corpora ==
    {c \in UNION {[1..n -> ProgramPool] : n \in 0..MaxPrograms} :
        \A j, k \in 1..Len(c) : j # k => c[j].name # c[k].name}

EntryPool == UNION {{p.faq[k] : k \in 1..Len(p.faq)} : p \in ProgramPool}

\* total_score tabulated for the questions and entries of the model
TotalScoreTable == [q \in QuestionPool |-> [e \in EntryPool |-> total_score(q, e)]]
TotalScoreOf(q, e) ==
    IF q \in QuestionPool /\ e \in EntryPool THEN TotalScoreTable[q][e] ELSE total_score(q, e)
RelevantTable == [q \in QuestionPool |-> is_relevant_question(q)]
RelevantOf(q) == IF q \in QuestionPool THEN RelevantTable[q] ELSE is_relevant_question(q)

\* the replies of message_handler, by their first sentence
OutOfDomainReply ==
    "^IZVINITE, @ OTVEQA$ TOL'KO NA VOPROSY, SV@ZANNYE S MAGISTERSKIMI PROGRAMMAMI ^I^T^M^O."
NotFoundReply == "^K SOXALENI$, @ NE NAWEL TOQNOGO OTVETA NA VAW VOPROS."
AnswerReply(match) == "^OTVET NAJDEN (PROGRAMMA: " \o match.program \o ")"

Calls == DOMAIN fq

\* message c before its handling: mode "handler" enters message_handler,
\* mode "direct" calls find_best_answer as test_qa_system.py does
StartCall(mode) ==
    [mode |-> mode, pc |-> IF mode = "handler" THEN "handler" ELSE "gate",
     p |-> 0, i |-> 0, best_match |-> NoMatch, best_score |-> ZeroScore,
     scored |-> 0, returned |-> FALSE, result |-> NoMatch, response |-> ""]

Finished(c) == fq[c].pc = "done" \/ (fq[c].pc = "returned" /\ fq[c].mode = "direct")

\* the handlers hold no await before the reply: the messages are handled
\* one after the other
Turn(c) == \A d \in Calls : d < c => Finished(d)

\* message_handler without the relevance check of lines 377-388
HandlerGate_noGate(c) ==
    /\ Turn(c)
    /\ fq[c].pc = "handler"
    /\ fq' = [fq EXCEPT ![c].pc = "gate"]
    /\ UNCHANGED <<question, programs_data, nonFaqVars>>

\* message_handler lines 375-390: the reply to a question outside the
\* domain, else the call of find_best_answer
HandlerGate(c) ==
    /\ Turn(c)
    /\ fq[c].pc = "handler"
    /\ IF ~RelevantOf(question[c])
       THEN fq' = [fq EXCEPT ![c].pc = "done", ![c].response = OutOfDomainReply]
       ELSE fq' = [fq EXCEPT ![c].pc = "gate"]
    /\ UNCHANGED <<question, programs_data, nonFaqVars>>

\* find_best_answer without the early return of lines 80-81
Gate_noReturn(c) ==
    /\ Turn(c)
    /\ fq[c].pc = "gate"
    /\ fq' = [fq EXCEPT ![c].pc = "scan", ![c].p = 1, ![c].i = 1,
                        ![c].best_match = NoMatch, ![c].best_score = ZeroScore]
    /\ UNCHANGED <<question, programs_data, nonFaqVars>>

\* find_best_answer lines 80-88
Gate(c) ==
    /\ Turn(c)
    /\ fq[c].pc = "gate"
    /\ IF ~RelevantOf(question[c])
       THEN fq' = [fq EXCEPT ![c].pc = "returned", ![c].returned = TRUE,
                             ![c].result = NoMatch]
       ELSE fq' = [fq EXCEPT ![c].pc = "scan", ![c].p = 1, ![c].i = 1,
                             ![c].best_match = NoMatch, ![c].best_score = ZeroScore]
    /\ UNCHANGED <<question, programs_data, nonFaqVars>>

\* lines 90-92: a program without 'faq'
SkipProgram(c) ==
    /\ Turn(c)
    /\ fq[c].pc = "scan"
    /\ fq[c].p <= Len(programs_data)
    /\ ~programs_data[fq[c].p].has_faq
    /\ fq' = [fq EXCEPT ![c].p = @ + 1, ![c].i = 1]
    /\ UNCHANGED <<question, programs_data, nonFaqVars>>

\* lines 94-148: one FAQ entry scored
ScoreEntry(c) ==
    /\ Turn(c)
    /\ fq[c].pc = "scan"
    /\ fq[c].p <= Len(programs_data)
    /\ programs_data[fq[c].p].has_faq
    /\ fq[c].i <= Len(programs_data[fq[c].p].faq)
    /\ LET program == programs_data[fq[c].p]
           faq_item == program.faq[fq[c].i]
           total == TotalScoreOf(question[c], faq_item)
       IN  IF Replaces(total, fq[c].best_score)
           THEN fq' = [fq EXCEPT
                        ![c].best_score = [num |-> total.num, den |-> total.den],
                        ![c].best_match =
                            <<[question |-> faq_item.question,
                               answer |-> faq_item.answer,
                               program |-> program.name,
                               score |-> [num |-> total.num, den |-> total.den],
                               matched_words |-> total.common_words]>>,
                        ![c].i = @ + 1, ![c].scored = @ + 1]
           ELSE fq' = [fq EXCEPT ![c].i = @ + 1, ![c].scored = @ + 1]
    /\ UNCHANGED <<question, programs_data, nonFaqVars>>

\* line 94: the entries of the program are exhausted
EndProgram(c) ==
    /\ Turn(c)
    /\ fq[c].pc = "scan"
    /\ fq[c].p <= Len(programs_data)
    /\ programs_data[fq[c].p].has_faq
    /\ fq[c].i > Len(programs_data[fq[c].p].faq)
    /\ fq' = [fq EXCEPT ![c].p = @ + 1, ![c].i = 1]
    /\ UNCHANGED <<question, programs_data, nonFaqVars>>

\* line 150
ReturnBest(c) ==
    /\ Turn(c)
    /\ fq[c].pc = "scan"
    /\ fq[c].p > Len(programs_data)
    /\ fq' = [fq EXCEPT ![c].pc = "returned", ![c].returned = TRUE,
                        ![c].result = fq[c].best_match]
    /\ UNCHANGED <<question, programs_data, nonFaqVars>>

\* message_handler lines 392-418
HandlerReply(c) ==
    /\ Turn(c)
    /\ fq[c].pc = "returned"
    /\ fq[c].mode = "handler"
    /\ IF fq[c].result # NoMatch
       THEN fq' = [fq EXCEPT ![c].pc = "done",
                             ![c].response = AnswerReply(fq[c].result[1])]
       ELSE fq' = [fq EXCEPT ![c].pc = "done", ![c].response = NotFoundReply]
    /\ UNCHANGED <<question, programs_data, nonFaqVars>>

\* two messages, each handled by message_handler or passed to
\* find_best_answer directly, against one corpus
InitFAQ ==
    /\ question \in [{1, 2} -> QuestionPool]
    /\ programs_data \in Corpora
    /\ fq \in [{1, 2} -> {StartCall("handler"), StartCall("direct")}]
    /\ ExIdle
    /\ RecIdle
    /\ BotIdle

NextFAQ ==
    \E c \in Calls :
        \/ HandlerGate(c)
        \/ Gate(c)
        \/ SkipProgram(c)
        \/ ScoreEntry(c)
        \/ EndProgram(c)
        \/ ReturnBest(c)
        \/ HandlerReply(c)

SpecFAQ == InitFAQ /\ [][NextFAQ]_vars

\* ------------------------------------------------------------------------
\* Properties of find_best_answer and message_handler
\* ------------------------------------------------------------------------

\* the lowercased question holds a relevance keyword
HasKeyword(c) == RelevantOf(question[c])

\* find_best_answer returned None for a question that passed the gate
Unmatched(c) == HasKeyword(c) /\ fq[c].returned /\ fq[c].result = NoMatch

\* C4: for every question and every corpus, a match that find_best_answer
\* holds or returns has a composite score strictly greater than 0.2 (one
\* fifth), and the score is the composite score of the matched entry.
C4_ScoreAboveFloor ==
    \A c \in Calls :
        /\ fq[c].best_match # NoMatch =>
              /\ 5 * fq[c].best_match[1].score.num > fq[c].best_match[1].score.den
              /\ fq[c].best_match[1].score = fq[c].best_score
        /\ (fq[c].returned /\ fq[c].result # NoMatch) =>
              5 * fq[c].result[1].score.num > fq[c].result[1].score.den

\* a match returned after an entry of the corpus stayed at or below the floor
C4_Witness ==
    \E c \in Calls :
        /\ fq[c].returned
        /\ fq[c].result # NoMatch
        /\ \E p \in 1..Len(programs_data) : \E k \in 1..Len(programs_data[p].faq) :
              LET total == TotalScoreOf(question[c], programs_data[p].faq[k])
              IN  total.num > 0 /\ 5 * total.num <= total.den

\* C5: if the lowercased question holds none of the relevance keywords,
\* find_best_answer returns no match and scores no FAQ entry of any
\* program; a match is returned only for a question with a keyword.
C5_GateBeforeScoring ==
    \A c \in Calls :
        /\ ~HasKeyword(c) =>
              /\ fq[c].scored = 0
              /\ fq[c].pc # "scan"
              /\ fq[c].best_match = NoMatch
              /\ fq[c].returned => fq[c].result = NoMatch
        /\ (fq[c].returned /\ fq[c].result # NoMatch) => HasKeyword(c)

\* find_best_answer returned None for a question without a keyword although
\* an entry of the corpus would score above the floor
C5_Witness ==
    \E c \in Calls :
        /\ ~HasKeyword(c)
        /\ fq[c].mode = "direct"
        /\ fq[c].returned
        /\ fq[c].result = NoMatch
        /\ \E p \in 1..Len(programs_data) : \E k \in 1..Len(programs_data[p].faq) :
              Greater(TotalScoreOf(question[c], programs_data[p].faq[k]), Floor)

\* C6 as stated: the outcome of find_best_answer for a question rejected by
\* the relevance gate differs from its outcome for a question that passes
\* the gate and has no entry above 0.2.
C6_OutcomesDiffer ==
    \A c1, c2 \in Calls :
        (~HasKeyword(c1) /\ fq[c1].returned /\ Unmatched(c2)) =>
            fq[c1].result # fq[c2].result

\* C6 as amended: find_best_answer returns None in both cases; the two
\* cases are told apart by message_handler, which tests the relevance gate
\* itself: its reply to a question without a keyword is the out-of-domain
\* reply and its reply to an unmatched question with a keyword is the
\* not-found reply, and the two replies differ.
C6_CallerDistinguishes ==
    \A c1, c2 \in Calls :
        (~HasKeyword(c1) /\ Unmatched(c2)) =>
            /\ fq[c1].returned =>
                  fq[c1].result = NoMatch /\ fq[c1].result = fq[c2].result
            /\ (fq[c1].pc = "done" /\ fq[c2].pc = "done") =>
                  /\ fq[c1].response = OutOfDomainReply
                  /\ fq[c2].response = NotFoundReply
                  /\ fq[c1].response # fq[c2].response

\* message_handler replied to a question without a keyword and to a
\* question with a keyword whose entries all stayed at or below the floor
C6_Witness ==
    \E c1, c2 \in Calls :
        /\ ~HasKeyword(c1) /\ fq[c1].pc = "done"
        /\ Unmatched(c2) /\ fq[c2].pc = "done" /\ fq[c2].scored > 0
        /\ fq[c1].response # fq[c2].response

\* ------------------------------------------------------------------------
\* Properties of the line scan of extract_curriculum_data
\* ------------------------------------------------------------------------

\* the section a line names by its text alone: the mandatory header, else
\* the elective-pool header or the generic substring, else none
HeaderText(raw) ==
    LET line == Strip(raw)
    IN  IF Contains(line, "^OB@ZATEL'NYE DISCIPLINY") THEN "mandatory"
        ELSE IF Contains(line, "^PUL VYBORNYH DISCIPLIN") \/ Contains(Lower(line), "VYBORNYH")
             THEN "elective"
        ELSE "none"

\* the number a line matching '<int> SEMESTR' gives, "" for another line
SemesterDigits(raw) == semester_match(Strip(raw))

\* the groups the course pattern captures from the line
CourseGroups(raw) == course_match(Strip(raw))

HeaderTextTable == [raw \in KnownLines |-> HeaderText(raw)]
SemesterDigitsTable == [raw \in KnownLines |-> SemesterDigits(raw)]
CourseGroupsTable == [raw \in KnownLines |-> CourseGroups(raw)]
HeaderTextOf(raw) == IF raw \in KnownLines THEN HeaderTextTable[raw] ELSE HeaderText(raw)
SemesterDigitsOf(raw) ==
    IF raw \in KnownLines THEN SemesterDigitsTable[raw] ELSE SemesterDigits(raw)
CourseGroupsOf(raw) ==
    IF raw \in KnownLines THEN CourseGroupsTable[raw] ELSE CourseGroups(raw)
IsSemesterLine(raw) == SemesterDigitsOf(raw) # ""
HasCoursePattern(raw) == CourseGroupsOf(raw).matched

\* the positions of the consumed lines of run r that were recorded as
\* courses, in text order
CoursePositions(r) ==
    SelectSeq([i \in 1..(run[r].idx - 1) |-> i],
              LAMBDA i : KindOf(run[r].lines[i]) = "course")

\* the type inferred from a course name
TypeByName(name) ==
    IF \E keyword \in {"OB@ZATEL'N", "VORKWOP"} : Contains(Lower(name), keyword)
    THEN "mandatory" ELSE "elective"

\* the type the lines before position pos decide for a course named name,
\* the lines of hdrs being the section headers
TypeAfter(r, hdrs, name) ==
    IF hdrs # {} THEN HeaderTextOf(run[r].lines[Max(hdrs)]) ELSE TypeByName(name)

\* C11 as stated: a course has the section of the most recent line before
\* it that holds a section header, whatever its name; with no such line it
\* is mandatory when its lowercased name holds an indicator substring and
\* elective otherwise.
C11_TypeByPrecedingHeaders ==
    \A r \in Runs :
        run[r].pc # "start" =>
            LET all == run[r].curriculum.all_courses
                pos == CoursePositions(r)
            IN  \A j \in 1..Len(all) :
                    j <= Len(pos) =>
                        all[j].type =
                            TypeAfter(r, {i \in 1..(pos[j] - 1) :
                                            HeaderTextOf(run[r].lines[i]) # "none"},
                                      all[j].name)

\* C11 as amended: the section headers that count are the lines that hold
\* a section header and do not match the semester pattern (a line that
\* matches '<int> SEMESTR' is a semester header only); the course has the
\* section of the most recent of them, whatever its name, and with none
\* before it the type inferred from its name.
C11_TypeByEffectiveHeaders ==
    \A r \in Runs :
        run[r].pc # "start" =>
            LET all == run[r].curriculum.all_courses
                pos == CoursePositions(r)
            IN  /\ Len(pos) = Len(all)
                /\ \A j \in 1..Len(all) :
                      all[j].type =
                          TypeAfter(r, {i \in 1..(pos[j] - 1) :
                                          /\ HeaderTextOf(run[r].lines[i]) # "none"
                                          /\ ~IsSemesterLine(run[r].lines[i])},
                                    all[j].name)

\* a finished run that recorded a course as elective after an elective
\* header although its name holds an indicator substring
C11_Witness ==
    \E r \in Runs :
        /\ run[r].pc = "done"
        /\ \E j \in 1..Len(run[r].curriculum.all_courses) :
              /\ run[r].curriculum.all_courses[j].type = "elective"
              /\ TypeByName(run[r].curriculum.all_courses[j].name) = "mandatory"

\* a line the scan drops: blank, or matching none of the semester-header,
\* section-header and course patterns
Dropped(raw) ==
    \/ Strip(raw) = ""
    \/ ~IsSemesterLine(raw) /\ HeaderTextOf(raw) = "none" /\ ~HasCoursePattern(raw)

\* a non-empty string of digits: int() of it does not raise
IsNumber(d) == Len(d) > 0 /\ AllDigits(d, 1, Len(d))

\* C13: extract_curriculum_data never raises (every line takes one of the
\* branches of the loop body and the texts passed to int() are numbers),
\* and a line that is blank or matches none of the semester-header,
\* section-header and course patterns leaves the curriculum (semester
\* buckets and the three course lists), the tracked semester and the
\* current section unchanged.
C13_DroppedLines ==
    [][\A r \in Runs :
          /\ AtLine(r) =>
                /\ KindOf(CurLine(r)) \in
                      {"blank", "semester", "mandatory", "elective", "course", "noise"}
                /\ KindOf(CurLine(r)) = "semester" => IsNumber(SemesterDigitsOf(CurLine(r)))
                /\ KindOf(CurLine(r)) = "course" =>
                      /\ IsNumber(CourseGroupsOf(CurLine(r)).g1)
                      /\ IsNumber(CourseGroupsOf(CurLine(r)).g3)
                /\ run'[r] # run[r] => run'[r].idx = run[r].idx + 1
          /\ (AtLine(r) /\ Dropped(CurLine(r)) /\ run'[r] # run[r]) =>
                /\ run'[r].curriculum = run[r].curriculum
                /\ run'[r].current_semester = run[r].current_semester
                /\ run'[r].current_section = run[r].current_section]_vars

\* a run that has just dropped a noise line while a semester and a section
\* were set and a course was recorded
C13_Witness ==
    \E r \in Runs :
        /\ run[r].pc = "scan"
        /\ run[r].idx > 1
        /\ Dropped(run[r].lines[run[r].idx - 1])
        /\ Strip(run[r].lines[run[r].idx - 1]) # ""
        /\ run[r].current_section # "none"
        /\ Len(run[r].curriculum.all_courses) > 0

\* the digits a stripped line begins with
LeadingDigits(raw) ==
    LET line == Strip(raw)
    IN  SubSeq(line, 1, Max({n \in 0..Len(line) : AllDigits(line, 1, n)}))

\* the stripped line without its trailing number and the blanks before it
Body(raw) ==
    LET line == Strip(raw)
    IN  Strip(SubSeq(line, 1, Len(line) - Len(TrailingToken(raw))))

\* the first group of the course pattern: the leading digits, less the
\* last one when the body is digits only (the name takes that digit)
FirstGroup(raw) ==
    IF LeadingDigits(raw) = Body(raw)
    THEN SubSeq(LeadingDigits(raw), 1, Len(LeadingDigits(raw)) - 1)
    ELSE LeadingDigits(raw)

LeadingDigitsTable == [raw \in DOMAIN CourseInfoTable |-> LeadingDigits(raw)]
FirstGroupTable == [raw \in DOMAIN CourseInfoTable |-> FirstGroup(raw)]
LeadingDigitsOf(raw) ==
    IF raw \in DOMAIN LeadingDigitsTable THEN LeadingDigitsTable[raw] ELSE LeadingDigits(raw)
FirstGroupOf(raw) ==
    IF raw \in DOMAIN FirstGroupTable THEN FirstGroupTable[raw] ELSE FirstGroup(raw)

\* course j of run r is stored in the semester bucket n of its type and in
\* no other bucket
StoredIn(r, j, n) ==
    LET cur == run[r].curriculum
        c == cur.all_courses[j]
    IN  /\ c.semester = n
        /\ \A k \in 1..Len(cur.semesters) :
              LET bucket == IF c.type = "mandatory" THEN cur.semesters[k].mandatory
                            ELSE cur.semesters[k].elective
                  others == IF c.type = "mandatory" THEN cur.semesters[k].elective
                            ELSE cur.semesters[k].mandatory
              IN  /\ (cur.semesters[k].num = n) <=> (c \in Range(bucket))
                  /\ c \notin Range(others)
        /\ HasSemester(cur.semesters, n)

BucketOf(sems, n) == SelectSeq(sems, LAMBDA b : b.num = n)

\* C16: a line matching '<int> SEMESTR' creates an empty bucket for that
\* semester only if none exists and leaves every existing bucket as it is
\* (so the same header processed twice gives what it gives once), and it
\* adds no course to any list, also when the line matches the course
\* pattern too.
C16_SemesterHeader ==
    [][\A r \in Runs :
          (AtLine(r) /\ IsSemesterLine(CurLine(r)) /\ run'[r] # run[r]) =>
              LET n == ToInt(SemesterDigitsOf(CurLine(r)))
                  old == run[r].curriculum
                  new == run'[r].curriculum
              IN  /\ new.all_courses = old.all_courses
                  /\ new.mandatory_courses = old.mandatory_courses
                  /\ new.elective_courses = old.elective_courses
                  /\ SubSeq(new.semesters, 1, Len(old.semesters)) = old.semesters
                  /\ IF HasSemester(old.semesters, n)
                     THEN new.semesters = old.semesters
                     ELSE new.semesters =
                            Append(old.semesters,
                                   [num |-> n, mandatory |-> << >>, elective |-> << >>])
                  /\ InitSemester(new.semesters, n) = new.semesters
                  /\ run'[r].current_semester = n]_vars

\* a run that has just processed a semester header whose bucket already
\* held a course
C16_Witness ==
    \E r \in Runs :
        /\ run[r].pc = "scan"
        /\ run[r].idx > 1
        /\ IsSemesterLine(run[r].lines[run[r].idx - 1])
        /\ \E k \in 1..Len(run[r].curriculum.semesters) :
              /\ run[r].curriculum.semesters[k].num = run[r].current_semester
              /\ Len(run[r].curriculum.semesters[k].mandatory)
                    + Len(run[r].curriculum.semesters[k].elective) > 0

\* C17 as stated: a line holding the mandatory header sets the current
\* section to mandatory, a line holding the elective-pool header or the
\* generic substring sets it to elective, the mandatory test first; the
\* header line is never recorded as a course.
C17_HeaderSetsSection ==
    [][\A r \in Runs :
          (AtLine(r) /\ HeaderTextOf(CurLine(r)) # "none" /\ run'[r] # run[r]) =>
              /\ run'[r].current_section = HeaderTextOf(CurLine(r))
              /\ run'[r].curriculum = run[r].curriculum]_vars

\* C17 as amended: a line that does not match the semester pattern sets
\* the current section to mandatory when it holds the mandatory header and
\* to elective when it holds the elective-pool header or the generic
\* substring, the mandatory test first, so a line holding both sets
\* mandatory; a line that matches the semester pattern leaves the section
\* as it is; in every case the header line is not recorded as a course,
\* also when it matches the course pattern.
C17_SectionHeaders ==
    [][\A r \in Runs :
          (AtLine(r) /\ HeaderTextOf(CurLine(r)) # "none" /\ run'[r] # run[r]) =>
              /\ run'[r].current_section =
                    IF IsSemesterLine(CurLine(r)) THEN run[r].current_section
                    ELSE HeaderTextOf(CurLine(r))
              /\ run'[r].curriculum.all_courses = run[r].curriculum.all_courses
              /\ run'[r].curriculum.mandatory_courses = run[r].curriculum.mandatory_courses
              /\ run'[r].curriculum.elective_courses = run[r].curriculum.elective_courses
              /\ ~IsSemesterLine(CurLine(r)) => run'[r].curriculum = run[r].curriculum]_vars

\* a run that has just set the section to mandatory by a line that holds
\* both headers and matches the course pattern
C17_Witness ==
    \E r \in Runs :
        /\ run[r].pc = "scan"
        /\ run[r].idx > 1
        /\ run[r].current_section = "mandatory"
        /\ LET raw == run[r].lines[run[r].idx - 1]
           IN  /\ HeaderTextOf(raw) = "mandatory"
               /\ Contains(Lower(raw), "VYBORNYH")
               /\ HasCoursePattern(raw)
        /\ Len(run[r].curriculum.all_courses) = 0

\* ------------------------------------------------------------------------
\* Properties of the recommendation loop of generate_recommendations
\* ------------------------------------------------------------------------
\* the call has returned
Returned == gr.pc = "done"

\* the elective courses of the bucket cat, in bucket order
ElectivesOf(cat) ==
    IF cat \in DOMAIN gr.categorized
    THEN SelectSeq(gr.categorized[cat], LAMBDA c : c.type = "elective")
    ELSE << >>

\* position of the j-th course of es after a stable sort by credits descending
RankIn(es, j) ==
    1 + Cardinality({k \in 1..Len(es) : es[k].credits > es[j].credits})
      + Cardinality({k \in 1..(j - 1) : es[k].credits = es[j].credits})

\* the returned recommendations of the category cat, in their returned order
DrawnFrom(cat) ==
    SelectSeq(gr.result.recommendations, LAMBDA x : x.category = cat)

\* C12: once generate_recommendations has returned, the recommendations of
\* the category at 0-based position i of the preference order are the first
\* max(1, 4 - i) electives of that category's bucket after a stable sort by
\* credits descending (all of them when the bucket has fewer), each with
\* priority len(preferences) - i; every recommendation is an elective course
\* of one of the preferred categories.
C12_TopElectivesPerCategory ==
    Returned =>
        /\ \A i \in 0..(Len(gr.preferences) - 1) :
              LET cat == gr.preferences[i + 1]
                  es == ElectivesOf(cat)
                  quota == IF 4 - i >= 1 THEN 4 - i ELSE 1
                  n == IF Len(es) < quota THEN Len(es) ELSE quota
                  drawn == DrawnFrom(cat)
              IN  /\ Len(drawn) = n
                  /\ \A j \in 1..Len(es) :
                        RankIn(es, j) <= n =>
                            /\ drawn[RankIn(es, j)].name = es[j].name
                            /\ drawn[RankIn(es, j)].credits = es[j].credits
                            /\ drawn[RankIn(es, j)].hours = es[j].hours
                            /\ drawn[RankIn(es, j)].semester = es[j].semester
                  /\ \A j \in 1..Len(drawn) : drawn[j].priority = Len(gr.preferences) - i
        /\ \A j \in 1..Len(gr.result.recommendations) :
              /\ gr.result.recommendations[j].type = "elective"
              /\ gr.result.recommendations[j].category \in Range(gr.preferences)

\* the first preferred category holds five electives, two of them with equal
\* credits, and a mandatory course with more credits than any of them; four
\* of the electives are returned
C12_Witness ==
    /\ Returned
    /\ LET cat == gr.preferences[1]
           es == ElectivesOf(cat)
       IN  /\ Len(es) >= 5
           /\ \E j, k \in 1..Len(es) : j < k /\ es[j].credits = es[k].credits
                                        /\ RankIn(es, k) <= 4
           /\ \E j \in 1..Len(gr.categorized[cat]) :
                 /\ gr.categorized[cat][j].type = "mandatory"
                 /\ \A k \in 1..Len(es) : gr.categorized[cat][j].credits > es[k].credits
           /\ Len(DrawnFrom(cat)) = 4

\* the curriculum has no course: all_courses is missing or empty
NoCourses == GetList(curriculum, "all_courses") = << >>

\* C14: for a curriculum whose all_courses is empty or missing,
\* categorize_subjects gives the 8 buckets, all empty, and
\* generate_recommendations reaches its return, for every biography text,
\* with an empty recommendations list, the 8 category counts at 0, a total
\* course count of 0 and a non-empty-category count of 0.
C14_EmptyCurriculum ==
    NoCourses =>
        /\ (gr.pc \in {"recommend", "done"} =>
              /\ DOMAIN gr.categorized = BucketKeys
              /\ Cardinality(DOMAIN gr.categorized) = 8
              /\ \A cat \in DOMAIN gr.categorized : gr.categorized[cat] = << >>)
        /\ (gr.pc = "recommend" => gr.recommendations = << >>)
        /\ (gr.pc = "done" =>
              /\ gr.result.recommendations = << >>
              /\ DOMAIN gr.result.category_distribution = BucketKeys
              /\ \A cat \in BucketKeys : gr.result.category_distribution[cat] = 0
              /\ gr.result.analysis.total_courses = 0
              /\ gr.result.analysis.categories_found = 0)

\* a call on a curriculum without the all_courses key, whose elective list
\* is not empty, has returned
C14_Witness ==
    /\ Returned
    /\ "all_courses" \notin DOMAIN curriculum
    /\ GetList(curriculum, "elective_courses") # << >>
    /\ gr.result.recommendations = << >>
    /\ gr.result.analysis.elective_courses = 1

\* C18: every course of a bucket other than 'other' is in the first
\* category, in the registry order machine_learning, programming,
\* computer_vision, nlp, data_science, systems, product, that has a keyword
\* occurring in the lowercased course name; a course is in 'other' exactly
\* when no category has such a keyword.
C18_FirstCategoryWins ==
    /\ [k \in 1..Len(categories) |-> categories[k].key]
         = <<"machine_learning", "programming", "computer_vision", "nlp",
             "data_science", "systems", "product">>
    /\ gr.pc \in {"recommend", "done"} =>
          \A cat \in DOMAIN gr.categorized :
             \A j \in 1..Len(gr.categorized[cat]) :
                LET hits == MatchingOf(gr.categorized[cat][j])
                IN  /\ cat # "other" =>
                          \E k \in hits : /\ categories[k].key = cat
                                          /\ \A k2 \in hits : k2 >= k
                    /\ cat = "other" <=> hits = {}

\* a course whose name has keywords of two categories sits in the earlier
\* one, and a course without any keyword sits in 'other'
C18_Witness ==
    /\ gr.pc \in {"recommend", "done"}
    /\ \E cat \in DOMAIN gr.categorized \ {"other"} :
          \E j \in 1..Len(gr.categorized[cat]) :
             Cardinality(MatchingOf(gr.categorized[cat][j])) >= 2
    /\ gr.categorized["other"] # << >>

\* the profile is 'undetermined' (dominant_profile is None)
Undetermined == gr.dominant_profile = "None"

\* 0-based position in the preference order of the category a
\* recommendation was drawn from
PositionOf(rec) == Len(gr.preferences) - rec.priority

\* C19 as stated: with an undetermined profile every reason is exactly the
\* baseline string, also for the first preferred category; otherwise the
\* reason is the archetype text, with the suffix exactly when i = 0.
C19_BaselineUnadorned ==
    Returned =>
        \A j \in 1..Len(gr.result.recommendations) :
           LET rec == gr.result.recommendations[j]
           IN  IF Undetermined
               THEN rec.reason = "^BAZOVA@ REKOMENDACI@"
               ELSE rec.reason = "^REKOMENDOVANO DL@ " \o gr.result.user_profile
                                 \o (IF PositionOf(rec) = 0
                                     THEN " (PRIORITETNA@ OBLAST')" ELSE "")

\* C19: the reason is the baseline string when the profile is undetermined
\* and the archetype text otherwise, and in both cases the suffix is
\* appended exactly when the recommendation comes from the first preferred
\* category (i = 0).
C19_ReasonWithSuffix ==
    Returned =>
        \A j \in 1..Len(gr.result.recommendations) :
           LET rec == gr.result.recommendations[j]
           IN  rec.reason =
                  (IF Undetermined
                   THEN "^BAZOVA@ REKOMENDACI@"
                   ELSE "^REKOMENDOVANO DL@ " \o gr.result.user_profile)
                  \o (IF PositionOf(rec) = 0
                      THEN " (PRIORITETNA@ OBLAST')" ELSE "")

\* an undetermined profile with recommendations from the first preferred
\* category and from a later one
C19_Witness ==
    /\ Returned
    /\ Undetermined
    /\ \E j, k \in 1..Len(gr.result.recommendations) :
          /\ PositionOf(gr.result.recommendations[j]) = 0
          /\ PositionOf(gr.result.recommendations[k]) > 0

\* ------------------------------------------------------------------------
\* Properties of the scan of find_best_answer
\* ------------------------------------------------------------------------
\* the FAQ entries in scan order: the programs in insertion order, the
\* entries of each program in list order; a program without 'faq' has none
RECURSIVE ScanOrder(_)
ScanOrder(programs) ==
    IF programs = << >> THEN << >>
    ELSE LET program == Head(programs)
             own == IF program.has_faq
                    THEN [k \in 1..Len(program.faq) |->
                             [program |-> program.name, item |-> program.faq[k]]]
                    ELSE << >>
         IN  own \o ScanOrder(Tail(programs))

\* the composite score of the k-th scanned entry for the question of call c
ScoreAt(c, k) == TotalScoreOf(question[c], ScanOrder(programs_data)[k].item)

\* no scanned entry scores more than the k-th
IsMaximal(c, k) ==
    \A k2 \in 1..Len(ScanOrder(programs_data)) : ~Greater(ScoreAt(c, k2), ScoreAt(c, k))

\* C20: when find_best_answer has returned for a question that passes the
\* relevance gate, the result is the first entry in scan order among those
\* with the greatest composite score if that score exceeds 0.2, and it is no
\* match exactly when no entry scores above 0.2.
C20_FirstMaximalEntry ==
    \A c \in Calls :
       (fq[c].returned /\ HasKeyword(c)) =>
          LET scan == ScanOrder(programs_data)
              above == {k \in 1..Len(scan) : Greater(ScoreAt(c, k), Floor)}
          IN  /\ fq[c].result = NoMatch <=> above = {}
              /\ above # {} =>
                    LET first == Min({k \in 1..Len(scan) : IsMaximal(c, k)})
                        match == fq[c].result[1]
                    IN  /\ match.program = scan[first].program
                        /\ match.question = scan[first].item.question
                        /\ match.answer = scan[first].item.answer
                        /\ ~Greater(match.score, ScoreAt(c, first))
                        /\ ~Greater(ScoreAt(c, first), match.score)

\* a returned call for which two entries of different programs tie at the
\* greatest score, above 0.2, and a later entry scores less
C20_Witness ==
    \E c \in Calls :
       /\ fq[c].returned /\ HasKeyword(c)
       /\ fq[c].result # NoMatch
       /\ LET scan == ScanOrder(programs_data)
          IN  \E j, k \in 1..Len(scan) :
                 /\ j < k
                 /\ IsMaximal(c, j) /\ IsMaximal(c, k)
                 /\ scan[j].program # scan[k].program
                 /\ \E m \in 1..Len(scan) : Greater(ScoreAt(c, j), ScoreAt(c, m))

\* ------------------------------------------------------------------------
\* Properties of the archetype scores of generate_recommendations
\* ------------------------------------------------------------------------
\* lines 341-344: how many keywords of the archetype at position k occur in
\* the lowercased text t
KeywordCount(t, k) ==
    Cardinality({j \in 1..Len(user_profiles[k].keywords) :
                    Contains(Lower(t), user_profiles[k].keywords[j])})

KeywordCountTable ==
    [t \in Backgrounds |-> [k \in 1..Len(user_profiles) |-> KeywordCount(t, k)]]
KeywordCountOf(t, k) ==
    IF t \in Backgrounds THEN KeywordCountTable[t][k] ELSE KeywordCount(t, k)

\* C21 as stated: the reported profile_scores are the raw counts (in
\* tenths: 10 times the count of matched keywords).
C21_RawScoresReported ==
    Returned =>
        \A k \in 1..Len(user_profiles) :
           gr.result.profile_scores[k] = 10 * KeywordCountOf(background_text, k)

\* C21: the reported profile_scores are the adjusted scores: 0 for an
\* archetype without a matched keyword, else n * (1 + 0.1 * n) for n
\* matched keywords (in tenths: n * (10 + n)).
C21_AdjustedScoresReported ==
    Returned =>
        \A k \in 1..Len(user_profiles) :
           LET n == KeywordCountOf(background_text, k)
           IN  gr.result.profile_scores[k] = IF n > 0 THEN n * (10 + n) ELSE 0

\* a returned call whose text matched one keyword of some archetype and two
\* or more of another
C21_Witness ==
    /\ Returned
    /\ \E j, k \in 1..Len(user_profiles) :
          /\ KeywordCountOf(background_text, j) = 1
          /\ KeywordCountOf(background_text, k) >= 2
          /\ gr.result.profile_scores[k] > 10 * KeywordCountOf(background_text, k)

\* the archetypes (by position) with the greatest number of matched keywords
TopCounted(t) ==
    {k \in 1..Len(user_profiles) :
        \A j \in 1..Len(user_profiles) : KeywordCountOf(t, k) >= KeywordCountOf(t, j)}

\* profile_scores as a classifier without the adjustment would hold them
RawScores(t) ==
    [k \in 1..Len(user_profiles) |->
        [score |-> KeywordCountOf(t, k), matched_keywords |-> << >>]]

\* C29: the adjusted score grows strictly with the count of matched
\* keywords, and when some archetype has a matched keyword the archetype
\* chosen is the earliest declared among those with the most matched
\* keywords, the one the loop of lines 357-363 picks from the raw counts.
C29_AdjustmentKeepsChoice ==
    /\ \A n \in 0..Max({Len(user_profiles[k].keywords) : k \in 1..Len(user_profiles)}) - 1 :
          (IF n > 0 THEN n * (10 + n) ELSE 0) < (n + 1) * (10 + n + 1)
    /\ (Chosen /\ \E k \in 1..Len(user_profiles) : KeywordCountOf(background_text, k) > 0) =>
          LET first == Min(TopCounted(background_text))
          IN  /\ gr.dominant_profile = user_profiles[first].key
              /\ gr.best_profile = first
              /\ FindBest(RawScores(background_text)).best_profile = gr.best_profile

\* the archetype chosen has more matched keywords than an archetype
\* declared before it, which has some
C29_Witness ==
    /\ Returned
    /\ gr.best_profile # 0
    /\ \E j \in 1..Len(user_profiles) :
          /\ j < gr.best_profile
          /\ KeywordCountOf(background_text, j) > 0
          /\ KeywordCountOf(background_text, j)
               < KeywordCountOf(background_text, gr.best_profile)

\* the lowercased text holds one of the three generic developer terms that
\* are also keywords of fullstack_developer
NamesDeveloper(t) ==
    \E term \in {"PROGRAMMIST", "RAZRABOTQIK", "developer"} : Contains(Lower(t), term)

NamesDeveloperTable == [t \in Backgrounds |-> NamesDeveloper(t)]
NamesDeveloperOf(t) ==
    IF t \in Backgrounds THEN NamesDeveloperTable[t] ELSE NamesDeveloper(t)

\* C30: the three terms are keywords of the first archetype of the
\* registry, fullstack_developer; a text holding one of them resolves to an
\* archetype of the registry, never to the general developer; the general
\* developer is chosen only for a text without any archetype keyword.
C30_FallbackShadowed ==
    /\ user_profiles[1].key = "fullstack_developer"
    /\ {"PROGRAMMIST", "RAZRABOTQIK", "developer"} \subseteq Range(user_profiles[1].keywords)
    /\ Chosen =>
          /\ NamesDeveloperOf(background_text) =>
                /\ gr.dominant_profile # "general_developer"
                /\ \E k \in 1..Len(user_profiles) :
                      gr.dominant_profile = user_profiles[k].key
          /\ gr.dominant_profile = "general_developer" =>
                /\ ~NamesDeveloperOf(background_text)
                /\ DeveloperOf(background_text)
                /\ \A k \in 1..Len(user_profiles) : KeywordCountOf(background_text, k) = 0

\* a text with one of the three terms and with 'KOD' has resolved to an
\* archetype of the registry
C30_Witness ==
    /\ Returned
    /\ NamesDeveloperOf(background_text)
    /\ Contains(Lower(background_text), "KOD")
    /\ gr.dominant_profile \in {user_profiles[k].key : k \in 1..Len(user_profiles)}

\* ------------------------------------------------------------------------
\* Size of the list generate_recommendations returns
\* ------------------------------------------------------------------------
\* a recommendation carries the fields of the course c
IsCopyOf(rec, c) ==
    /\ rec.name = c.name /\ rec.credits = c.credits /\ rec.hours = c.hours
    /\ rec.semester = c.semester /\ rec.type = c.type

\* C28: every archetype and both fallbacks have 3 distinct preferred
\* categories; the list before the cut of line 416 has at most 9 entries,
\* at most 4, 3 and 2 with priority 3, 2 and 1, so the cut to 10 removes
\* nothing; every priority is 1, 2 or 3; and no course is recommended more
\* often than the curriculum lists it.
C28_AtMostNine ==
    /\ \A k \in 1..Len(user_profiles) :
          /\ Len(user_profiles[k].preferences) = 3
          /\ Cardinality(Range(user_profiles[k].preferences)) = 3
    /\ Chosen => Len(gr.preferences) = 3 /\ Cardinality(Range(gr.preferences)) = 3
    /\ Returned =>
          LET recs == gr.result.recommendations
              courses == GetList(curriculum, "all_courses")
          IN  /\ Len(gr.recommendations) <= 9
              /\ recs = gr.recommendations
              /\ \A j \in 1..Len(recs) : recs[j].priority \in {1, 2, 3}
              /\ \A pr \in {1, 2, 3} :
                    Cardinality({j \in 1..Len(recs) : recs[j].priority = pr}) <= pr + 1
              /\ \A m \in 1..Len(courses) :
                    Cardinality({j \in 1..Len(recs) : IsCopyOf(recs[j], courses[m])})
                       <= Cardinality({n \in 1..Len(courses) : courses[n] = courses[m]})

\* nine recommendations returned, each of the three preferred categories
\* holding more electives than its limit
C28_Witness ==
    /\ Returned
    /\ Len(gr.result.recommendations) = 9
    /\ \A i \in 0..2 : Len(ElectivesOf(gr.preferences[i + 1])) > 4 - i

C22_CourseRanges ==
    \A r \in Runs :
       run[r].pc # "start" =>
          \A j \in 1..Len(run[r].curriculum.all_courses) :
             LET c == run[r].curriculum.all_courses[j]
             IN  /\ c.semester >= 1
                 /\ c.credits >= 0
                 /\ c.hours >= 0
                 /\ c.type \in {"mandatory", "elective"}

\* the run r records a course in this step
RecordsCourse(r) ==
    /\ run[r].pc = "scan" /\ run'[r].pc = "scan"
    /\ Len(run'[r].curriculum.all_courses) = Len(run[r].curriculum.all_courses) + 1

\* the course the run r has recorded last
LastCourse(r) == run[r].curriculum.all_courses[Len(run[r].curriculum.all_courses)]

MaxUpdates == 3      \* updates the bot receives

\* bot.py lines 18-28: UserProfile()
UserProfile ==
    [background |-> "", interests |-> << >>, experience_level |-> "",
     preferred_program |-> ""]

\* the updates of the model: /profile without and with arguments,
\* /recommendations, and the buttons 'get_recommendations' and 'compare'
UpdatePool ==
    {[kind |-> "profile", user |-> 1, args |-> << >>],
     [kind |-> "profile", user |-> 1, args |-> <<"PROGRAMMIST">>],
     [kind |-> "profile", user |-> 1, args |-> <<"^KOD", "PROSTO">>],
     [kind |-> "profile", user |-> 2, args |-> <<"ANALITIK">>],
     [kind |-> "recommendations", user |-> 1, args |-> << >>],
     [kind |-> "recommendations", user |-> 2, args |-> << >>],
     [kind |-> "button_recommendations", user |-> 1, args |-> << >>],
     [kind |-> "button_compare", user |-> 1, args |-> << >>]}

Users == {u.user : u \in UpdatePool}

\* what a handler that has not read a profile holds
NotRead == [entry |-> FALSE, background |-> ""]

\* the handler of an update, before its first statement
NewTask(u) ==
    [kind |-> u.kind, user |-> u.user, args |-> u.args, pc |-> "new",
     seen |-> NotRead, reply |-> ""]

\* programs as load_programs_data returns them: with a curriculum that has
\* courses, with a curriculum without courses, and without 'curriculum'
BotPrograms ==
    [ai |-> [name |-> "^I^I", has_curriculum |-> TRUE,
             curriculum |-> CurriculumOf(<<Catalog[1], Catalog[7]>>)],
     product |-> [name |-> "^I^I-PRODUKT", has_curriculum |-> TRUE,
                  curriculum |-> EmptyCurriculum],
     highload |-> [name |-> "^highload", has_curriculum |-> FALSE,
                   curriculum |-> EmptyCurriculum],
     po |-> [name |-> "^P^O", has_curriculum |-> TRUE,
             curriculum |-> CurriculumOf(<<Catalog[2]>>)]]

\* programs_data, in the insertion order of the dict
BotCorpora ==
    {<<BotPrograms.highload, BotPrograms.product, BotPrograms.ai, BotPrograms.po>>,
     <<BotPrograms.product, BotPrograms.highload>>,
     << >>}

\* self.user_profiles.get(user_id, UserProfile()), lines 157 and 220
ReadProfile(profiles, user_id) ==
    IF user_id \in DOMAIN profiles THEN profiles[user_id] ELSE UserProfile

\* what the handler learns by the read of lines 157 and 220
Seen(profiles, user_id) ==
    [entry |-> user_id \in DOMAIN profiles,
     background |-> ReadProfile(profiles, user_id).background]

\* line 231: 'curriculum' in prog_data and prog_data['curriculum'].get('all_courses')
HasCourses(prog_data) ==
    prog_data.has_curriculum /\ GetList(prog_data.curriculum, "all_courses") # << >>

\* lines 229-233 without the break: the last program with courses
FirstWithCourses_last(programs) ==
    LET with == {k \in 1..Len(programs) : HasCourses(programs[k])}
    IN  IF with = {} THEN 0 ELSE Max(with)

\* lines 229-233: the position of program_with_curriculum, 0 for None
FirstWithCourses(programs) ==
    LET with == {k \in 1..Len(programs) : HasCourses(programs[k])}
    IN  IF with = {} THEN 0 ELSE Min(with)

\* get_recommendations, lines 218-283: the kind of text returned and the
\* arguments of the call of generate_recommendations, if it is called
get_recommendations(profiles, programs, user_id) ==
    LET profile == ReadProfile(profiles, user_id)
        k == FirstWithCourses(programs)
    IN  IF profile.background = ""
        THEN [reply |-> "prompt", call |-> << >>]
        ELSE IF k # 0
        THEN [reply |-> "recommendations",
              call |-> <<[background_text |-> profile.background,
                          curriculum |-> programs[k].curriculum]>>]
        ELSE [reply |-> "no_data", call |-> << >>]

\* get_program_comparison, lines 152-187: the kind of text returned
get_program_comparison(profiles, programs, user_id) ==
    IF programs = << >> THEN "not_loaded"
    ELSE IF ReadProfile(profiles, user_id).background # ""
    THEN "comparison_personal"
    ELSE "comparison_plain"

Tasks == DOMAIN bot.tasks

\* the handlers are started in the order the updates were received
CanStart(t) == \A j \in 1..(t - 1) : bot.tasks[j].pc # "new"

botFrame == <<text, run, gr, question, programs_data, fq>>

\* profile_handler lines 344-352: no arguments
ProfileNoArgs(t) ==
    /\ bot.tasks[t].kind = "profile" /\ bot.tasks[t].pc = "new" /\ CanStart(t)
    /\ bot.tasks[t].args = << >>
    /\ bot' = [bot EXCEPT !.tasks[t].pc = "replying", !.tasks[t].reply = "usage"]
    /\ UNCHANGED <<background_text, curriculum, botFrame>>

\* the profile of user_id with the background set (line 359); lines
\* 356-357 create it when it is missing
StoreIn(profiles, user_id, background) ==
    [v \in DOMAIN profiles \cup {user_id} |->
        IF v = user_id
        THEN [ReadProfile(profiles, user_id) EXCEPT !.background = background]
        ELSE profiles[v]]

\* profile_handler lines 354-359 keeping the background of an existing entry
ProfileStore_keepFirst(t) ==
    /\ bot.tasks[t].kind = "profile" /\ bot.tasks[t].pc = "new" /\ CanStart(t)
    /\ bot.tasks[t].args # << >>
    /\ LET user_id == bot.tasks[t].user
           background == JoinWords(bot.tasks[t].args)
       IN  bot' = [bot EXCEPT
                     !.user_profiles =
                        IF user_id \in DOMAIN @ THEN @
                        ELSE StoreIn(@, user_id, background),
                     !.tasks[t].pc = "replying",
                     !.tasks[t].reply = "updated"]
    /\ UNCHANGED <<background_text, curriculum, botFrame>>

\* profile_handler lines 354-359 with a suspension point between the
\* creation of the entry (line 357) and the assignment (line 359)
ProfileStore_split(t) ==
    /\ bot.tasks[t].kind = "profile" /\ bot.tasks[t].args # << >>
    /\ LET user_id == bot.tasks[t].user
           background == JoinWords(bot.tasks[t].args)
       IN  \/ /\ bot.tasks[t].pc = "new" /\ CanStart(t)
              /\ user_id \notin DOMAIN bot.user_profiles
              /\ bot' = [bot EXCEPT
                            !.user_profiles = StoreIn(@, user_id, ""),
                            !.tasks[t].pc = "created"]
           \/ /\ \/ bot.tasks[t].pc = "created"
                 \/ /\ bot.tasks[t].pc = "new" /\ CanStart(t)
                    /\ user_id \in DOMAIN bot.user_profiles
              /\ bot' = [bot EXCEPT
                            !.user_profiles = StoreIn(@, user_id, background),
                            !.tasks[t].pc = "replying",
                            !.tasks[t].reply = "updated"]
    /\ UNCHANGED <<background_text, curriculum, botFrame>>

\* profile_handler lines 354-366, up to the await of line 361
ProfileStore(t) ==
    /\ bot.tasks[t].kind = "profile" /\ bot.tasks[t].pc = "new" /\ CanStart(t)
    /\ bot.tasks[t].args # << >>
    /\ LET user_id == bot.tasks[t].user
           background == JoinWords(bot.tasks[t].args)
       IN  bot' = [bot EXCEPT
                     !.user_profiles = StoreIn(@, user_id, background),
                     !.tasks[t].pc = "replying",
                     !.tasks[t].reply = "updated"]
    /\ UNCHANGED <<background_text, curriculum, botFrame>>

\* the call of get_recommendations by the handler t, up to the await that
\* sends the text; generate_recommendations runs inside it without a
\* suspension point, on the arguments left in background_text and curriculum
CallGetRecommendations(t) ==
    LET r == get_recommendations(bot.user_profiles, programs_data, bot.tasks[t].user)
    IN  /\ bot' = [bot EXCEPT
                      !.tasks[t].pc = "replying",
                      !.tasks[t].seen = Seen(bot.user_profiles, bot.tasks[t].user),
                      !.tasks[t].reply = r.reply]
        /\ IF r.call # << >>
           THEN /\ background_text' = r.call[1].background_text
                /\ curriculum' = r.call[1].curriculum
           ELSE UNCHANGED <<background_text, curriculum>>
        /\ UNCHANGED botFrame

\* recommendations_handler lines 368-371, up to the await of line 371
RecommendationsCommand(t) ==
    /\ bot.tasks[t].kind = "recommendations" /\ bot.tasks[t].pc = "new" /\ CanStart(t)
    /\ CallGetRecommendations(t)

\* button_handler lines 307-310: await query.answer()
ButtonAnswer(t) ==
    /\ bot.tasks[t].kind \in {"button_recommendations", "button_compare"}
    /\ bot.tasks[t].pc = "new" /\ CanStart(t)
    /\ bot' = [bot EXCEPT !.tasks[t].pc = "answered"]
    /\ UNCHANGED <<background_text, curriculum, botFrame>>

\* button_handler lines 338-340, up to the await of line 340
ButtonRecommendations(t) ==
    /\ bot.tasks[t].kind = "button_recommendations" /\ bot.tasks[t].pc = "answered"
    /\ CallGetRecommendations(t)

\* button_handler lines 312-314, up to the await of line 314
ButtonCompare(t) ==
    /\ bot.tasks[t].kind = "button_compare" /\ bot.tasks[t].pc = "answered"
    /\ bot' = [bot EXCEPT
                  !.tasks[t].pc = "replying",
                  !.tasks[t].seen = IF programs_data = << >> THEN NotRead
                                    ELSE Seen(bot.user_profiles, bot.tasks[t].user),
                  !.tasks[t].reply =
                      get_program_comparison(bot.user_profiles, programs_data,
                                             bot.tasks[t].user)]
    /\ UNCHANGED <<background_text, curriculum, botFrame>>

\* the await that sends the reply returns and the handler ends
Finish(t) ==
    /\ bot.tasks[t].pc = "replying"
    /\ bot' = [bot EXCEPT !.tasks[t].pc = "done"]
    /\ UNCHANGED <<background_text, curriculum, botFrame>>

\* a bot with no profile stored that has received up to MaxUpdates updates
InitBot ==
    /\ bot \in {[user_profiles |-> << >>,
                 tasks |-> [k \in DOMAIN us |-> NewTask(us[k])]] :
                   us \in UNION {[1..n -> UpdatePool] : n \in 0..MaxUpdates}}
    /\ programs_data \in BotCorpora
    /\ question = << >>
    /\ fq = << >>
    /\ ExIdle
    /\ RecIdle

NextBot ==
    \E t \in Tasks :
        \/ ProfileNoArgs(t)
        \/ ProfileStore(t)
        \/ RecommendationsCommand(t)
        \/ ButtonAnswer(t)
        \/ ButtonRecommendations(t)
        \/ ButtonCompare(t)
        \/ Finish(t)

SpecBot == InitBot /\ [][NextBot]_vars

\* ------------------------------------------------------------------------
\* Properties of the stored profiles
\* ------------------------------------------------------------------------
\* the handler t is a /profile command with arguments
StoresProfile(t) == bot.tasks[t].kind = "profile" /\ bot.tasks[t].args # << >>

\* the handler t runs its assignment of lines 354-359 in this step
StoreStep(t) ==
    /\ StoresProfile(t)
    /\ bot.tasks[t].pc = "new" /\ bot'.tasks[t].pc # "new"

\* the background of the latest /profile command with arguments of the
\* user that has been handled, "" when there is none
LastProfile(user_id) ==
    LET handled == {t \in Tasks : /\ StoresProfile(t)
                                  /\ bot.tasks[t].user = user_id
                                  /\ bot.tasks[t].pc # "new"}
    IN  IF handled = {} THEN "" ELSE JoinWords(bot.tasks[Max(handled)].args)

\* C24: a /profile command with arguments of user u sets u's background to
\* the space-joined arguments and leaves the profiles of the other users as
\* they are; every other step of a handler (/profile without arguments, a
\* recommendations request, a comparison request) leaves user_profiles
\* unchanged; so a user has an entry exactly when they have sent a /profile
\* command with arguments, and it holds the background of the last one.
C24_ProfileWrites ==
    [][/\ \A t \in Tasks :
             StoreStep(t) =>
                LET u == bot.tasks[t].user
                IN  /\ DOMAIN bot'.user_profiles = DOMAIN bot.user_profiles \cup {u}
                    /\ bot'.user_profiles[u].background = JoinWords(bot.tasks[t].args)
                    /\ \A v \in DOMAIN bot.user_profiles \ {u} :
                          bot'.user_profiles[v] = bot.user_profiles[v]
       /\ (~ \E t \in Tasks : StoreStep(t)) => bot'.user_profiles = bot.user_profiles
       /\ \A u \in Users :
             /\ u \in DOMAIN bot'.user_profiles <=> LastProfile(u)' # ""
             /\ u \in DOMAIN bot'.user_profiles =>
                   bot'.user_profiles[u].background = LastProfile(u)']_vars

\* two /profile commands with arguments of user 1 and one of user 2 handled,
\* each user holding the background of their last command
C24_Witness ==
    /\ Len(bot.tasks) = 3
    /\ \A t \in Tasks : StoresProfile(t) /\ bot.tasks[t].pc = "done"
    /\ bot.tasks[1].user = 1 /\ bot.tasks[2].user = 2 /\ bot.tasks[3].user = 1
    /\ bot.tasks[1].args # bot.tasks[3].args
    /\ bot.user_profiles[1].background = JoinWords(bot.tasks[3].args)
    /\ bot.user_profiles[2].background = JoinWords(bot.tasks[2].args)

\* the handler t calls get_recommendations in this step
RecommendStep(t) ==
    /\ bot.tasks[t].kind \in {"recommendations", "button_recommendations"}
    /\ bot.tasks[t].pc \in {"new", "answered"}
    /\ bot'.tasks[t].pc = "replying"

\* the program at position k is the first one with a non-empty all_courses
IsFirstWithCourses(k) ==
    /\ HasCourses(programs_data[k])
    /\ \A j \in 1..(k - 1) : ~HasCourses(programs_data[j])

\* C25 as stated: get_recommendations returns the prompt without calling
\* generate_recommendations exactly when the user has sent no /profile
\* command with arguments; otherwise it calls generate_recommendations with
\* the background of the last such command and the curriculum of the first
\* program with a non-empty all_courses.
C25_AlwaysInvokes ==
    [][\A t \in Tasks :
          RecommendStep(t) =>
             LET b == LastProfile(bot.tasks[t].user)
             IN  /\ bot'.tasks[t].reply = "prompt" <=> b = ""
                 /\ b = "" => UNCHANGED <<background_text, curriculum>>
                 /\ b # "" =>
                       /\ bot'.tasks[t].reply = "recommendations"
                       /\ background_text' = b
                       /\ \E k \in 1..Len(programs_data) :
                             IsFirstWithCourses(k)
                             /\ curriculum' = programs_data[k].curriculum]_vars

\* C25: get_recommendations returns the prompt without calling
\* generate_recommendations exactly when the user has sent no /profile
\* command with arguments; otherwise, when some program has a non-empty
\* all_courses, it calls generate_recommendations with the background of
\* the last such command and the curriculum of the first such program, and
\* when no program has one it returns the no-data text without the call.
C25_InvokesWhenLoaded ==
    [][\A t \in Tasks :
          RecommendStep(t) =>
             LET b == LastProfile(bot.tasks[t].user)
                 loaded == \E k \in 1..Len(programs_data) : HasCourses(programs_data[k])
             IN  /\ bot'.tasks[t].reply = "prompt" <=> b = ""
                 /\ (b = "" \/ ~loaded) => UNCHANGED <<background_text, curriculum>>
                 /\ (b # "" /\ ~loaded) => bot'.tasks[t].reply = "no_data"
                 /\ (b # "" /\ loaded) =>
                       /\ bot'.tasks[t].reply = "recommendations"
                       /\ background_text' = b
                       /\ \E k \in 1..Len(programs_data) :
                             IsFirstWithCourses(k)
                             /\ curriculum' = programs_data[k].curriculum]_vars

\* user 1 sent two /profile commands with different arguments and then
\* /recommendations: the call got the background of the second command and
\* the curriculum of the third program, the first with courses, a later
\* program having courses too
C25_Witness ==
    /\ Len(bot.tasks) = 3
    /\ bot.tasks[1].kind = "profile" /\ bot.tasks[1].user = 1 /\ bot.tasks[1].args # << >>
    /\ bot.tasks[2].kind = "profile" /\ bot.tasks[2].user = 1 /\ bot.tasks[2].args # << >>
    /\ bot.tasks[1].args # bot.tasks[2].args
    /\ bot.tasks[3].kind = "recommendations" /\ bot.tasks[3].user = 1
    /\ bot.tasks[3].reply = "recommendations"
    /\ background_text = JoinWords(bot.tasks[2].args)
    /\ Len(programs_data) = 4
    /\ curriculum = programs_data[3].curriculum
    /\ HasCourses(programs_data[4])

\* the handler t has read the profile of its user
HasRead(t) ==
    /\ bot.tasks[t].kind \in {"recommendations", "button_recommendations", "button_compare"}
    /\ bot.tasks[t].pc \in {"replying", "done"}
    /\ bot.tasks[t].reply # "not_loaded"

\* the backgrounds the /profile commands of the user have stored so far
StoredSoFar(user_id) ==
    {JoinWords(bot.tasks[t].args) :
        t \in {j \in Tasks : /\ StoresProfile(j)
                             /\ bot.tasks[j].user = user_id
                             /\ bot.tasks[j].pc \in {"replying", "done"}}}

\* C26: at every point where the handlers can switch, a stored profile
\* holds a complete background, and what a recommendations or comparison
\* request has read is either no entry or an entry with a background that a
\* /profile command of the same user has stored; an entry that is created
\* but not filled in is never visible.
C26_NoHalfProfile ==
    /\ \A u \in DOMAIN bot.user_profiles :
          bot.user_profiles[u].background \in StoredSoFar(u)
    /\ \A t \in Tasks :
          HasRead(t) =>
             IF bot.tasks[t].seen.entry
             THEN bot.tasks[t].seen.background \in StoredSoFar(bot.tasks[t].user)
             ELSE bot.tasks[t].seen.background = ""

\* a button request received before a /profile command of the same user
\* has read the new background while the handler of the command is still
\* suspended at its reply, and another request of the user has read no entry
C26_Witness ==
    \E r, p, q \in Tasks :
       /\ r < p
       /\ bot.tasks[r].kind = "button_recommendations" /\ HasRead(r)
       /\ StoresProfile(p) /\ bot.tasks[p].pc = "replying"
       /\ bot.tasks[p].user = bot.tasks[r].user
       /\ bot.tasks[r].seen = [entry |-> TRUE, background |-> JoinWords(bot.tasks[p].args)]
       /\ q < p /\ HasRead(q) /\ bot.tasks[q].user = bot.tasks[r].user
       /\ ~bot.tasks[q].seen.entry

====
